---- MODULE Spec2Model ----
(***************************************************************************)
(* Image reconciliation engine of the Baserow -> D1 sync worker.           *)
(*                                                                         *)
(* The model follows src/src/images.ts (the revision built around          *)
(* processSingleImage, lines 425-1121), src/unnamed/part_001               *)
(* (google-drive.ts) and src/unnamed/part_002 (utils.ts).                  *)
(*                                                                         *)
(* State: the Drive folder (remote), the D1 table image_sync_records       *)
(* (ledger), the R2 bucket (bucket), the *_r2_urls column of the Baserow   *)
(* rows (rows), and the position of the operation in flight (pc, pass).    *)
(* log, prev, between, since, pre, ev and assoc are history variables that *)
(* record what an operation did; the code does not read them.              *)
(* Timestamps (processed_at, updated_at, x-synced-at) are not modelled.    *)
(***************************************************************************)
EXTENDS Integers, Sequences, FiniteSets, TLC

(* ------------------------------ bounds --------------------------------- *)
\* operations (sync passes and evictions) started in one run
MaxOps == 3
\* changes of the environment (Drive folder, out-of-band R2 edits) in one run
MaxEnv == 1
\* injected I/O failures in one run
MaxFaults == 2
\* upsertImageSyncRecord calls of one process in a run of concurrent upserts
MaxUpserts == 1
\* puts in a run of key derivations
MaxPuts == 2
\* HTTP requests in a run of the fetch handler
MaxRequests == 1
\* rows.deleted webhooks processed in one run
MaxWebhooks == 1

(* --------------------------- value domains ----------------------------- *)
\* SQL NULL / JavaScript null in a text column
Null == "null"
\* a missing JavaScript property (DriveFile.md5Checksum?: string)
Undefined == "undefined"
\* SQL NULL in r2_key / r2_url, which are tuples when present
NoKey == <<>>
NoUrl == <<>>
\* SQL NULL in an INTEGER column
NullSize == -1

\* JavaScript truthiness of a string-or-null-or-undefined value
Truthy(x) == x # Null /\ x # Undefined

\* characters [A-Za-z0-9._-] that sanitizing a file name keeps
SafeChars == {"a", "b", "c", "d", "j", "p", "t", "_", ".", "-"}

\* characters [A-Za-z0-9_\-] of a Drive folder id
IdChars == {"A", "B", "1", "h", "_", "-"}

\* shortest bare folder id that extractDriveFolderId accepts
MinBareIdLen == 10

(* ------------------------------ utils.ts ------------------------------- *)
RECURSIVE IdRun(_, _)
\* the longest run of id characters of url that starts at position i
IdRun(url, i) ==
  IF i > Len(url) \/ url[i] \notin IdChars THEN <<>>
  ELSE <<url[i]>> \o IdRun(url, i + 1)

\* positions at which /\/folders\/([A-Za-z0-9_\-]+)/ matches
FolderMatches(url) ==
  {i \in 1..Len(url) : url[i] = "/folders/" /\ IdRun(url, i + 1) # <<>>}

\* no folder id (the null that extractDriveFolderId returns)
NoFolder == <<>>

\* extractDriveFolderId without the length test of the bare-id case
extractDriveFolderIdAnyLength(url) ==
  IF Len(url) = 0 THEN NoFolder
  ELSE IF FolderMatches(url) # {}
  THEN IdRun(url, (CHOOSE i \in FolderMatches(url) :
                      \A j \in FolderMatches(url) : i <= j) + 1)
  ELSE IF \A i \in 1..Len(url) : url[i] \in IdChars
  THEN url
  ELSE NoFolder

\* extractDriveFolderId: the folder id, or NoFolder
extractDriveFolderId(url) ==
  IF Len(url) = 0 THEN NoFolder
  ELSE IF FolderMatches(url) # {}
  THEN IdRun(url, (CHOOSE i \in FolderMatches(url) :
                      \A j \in FolderMatches(url) : i <= j) + 1)
  ELSE IF (\A i \in 1..Len(url) : url[i] \in IdChars) /\ Len(url) >= MinBareIdLen
  THEN url
  ELSE NoFolder

\* file.name.replace(/[^a-zA-Z0-9._-]/g, "_")
Sanitize(name) ==
  [i \in 1..Len(name) |-> IF name[i] \in SafeChars THEN name[i] ELSE "_"]

(* ---------------------------- the Drive folder ------------------------- *)
FileIds == {"fA", "fB", "fD"}

\* the names a Drive file may carry
FileNames ==
  { <<"a", " ", "b", ".", "j">>, <<"a", "_", "b", ".", "j">>,
    <<"c", ".", "p">>, <<"d", ".", "t">>, <<"b", ".", "j">> }

FileMime(id) ==
  CASE id = "fA" -> "image/jpeg"
    [] id = "fB" -> "image/png"
    [] id = "fD" -> "text/plain"

\* byteLength of the downloaded content
FileSize(id) ==
  CASE id = "fA" -> 20
    [] id = "fB" -> 40
    [] id = "fD" -> 2

\* the default of MAX_IMAGE_SIZE (10 MiB in the code, scaled to the sizes
\* of the model)
DefaultMaxImageSize == 30

Hashes == {"h1", "h2"}

\* the one folder that exists on Drive
RealFolder == <<"A", "1">>

\* folder references handed to processImagesFromFolder
FolderUrls ==
  { <<"h", ":", "/folders/", "?", "/folders/">> \o RealFolder \o <<"?", "h">>,
    <<"A", "A", "A", "A", "A", "A", "A", "A", "1">>,
    <<"h", ":", "/folders/", "?">> }

\* collation rank of a character under String.prototype.localeCompare
CharRank(c) ==
  CASE c = " " -> 1 [] c = "_" -> 2 [] c = "-" -> 3 [] c = "." -> 4
    [] c = "a" -> 10 [] c = "b" -> 11 [] c = "c" -> 12 [] c = "d" -> 13
    [] c = "j" -> 14 [] c = "p" -> 15 [] c = "t" -> 16

RECURSIVE NameBefore(_, _)
\* a.name.localeCompare(b.name) < 0
NameBefore(a, b) ==
  IF Len(a) = 0 THEN Len(b) > 0
  ELSE IF Len(b) = 0 THEN FALSE
  ELSE IF a[1] # b[1] THEN CharRank(a[1]) < CharRank(b[1])
  ELSE NameBefore(Tail(a), Tail(b))

RECURSIVE SortByNameDescending(_)
\* a sort with the comparison reversed
SortByNameDescending(S) ==
  IF S = {} THEN <<>>
  ELSE LET f == CHOOSE x \in S : \A y \in S \ {x} : NameBefore(y.name, x.name)
       IN <<f>> \o SortByNameDescending(S \ {f})

RECURSIVE SortByName(_)
\* files.sort((a, b) => a.name.localeCompare(b.name))
SortByName(S) ==
  IF S = {} THEN <<>>
  ELSE LET f == CHOOSE x \in S : \A y \in S \ {x} : NameBefore(x.name, y.name)
       IN <<f>> \o SortByName(S \ {f})

DriveFile(id, name, hash) ==
  [id |-> id, name |-> name, mimeType |-> FileMime(id), md5Checksum |-> hash]

\* listDriveFiles: the files of the folder, sorted by name
listDriveFiles(folderId, rem) ==
  IF folderId = RealFolder
  THEN SortByName({DriveFile(id, rem.name[id], rem.hash[id]) : id \in rem.present})
  ELSE <<>>

\* the mime types of the model that start with "image/"
ImageMimeTypes == {"image/jpeg", "image/png"}

\* the filter of a version that keeps every listed file
IsImageAnyFile(f) == TRUE

\* f.mimeType.startsWith("image/")
IsImage(f) == f.mimeType \in ImageMimeTypes

\* getAccessToken: only an API key yields a token
getAccessToken(cfg) == IF cfg.creds = "apikey" THEN "token" ELSE Null

(* ------------------------------ the ledger ----------------------------- *)
TableIds == {1}
RowIds == {1, 2}
FieldName == "image_folder_url"
Owners == TableIds \X RowIds

\* a key derivation that ignores the file name
R2KeyOfOwnerOnly(tableId, rowId, name) == <<tableId, rowId, <<"b", ".", "j">>>>

\* `${tableId}/${rowId}/${sanitizedFilename}`
R2KeyOf(tableId, rowId, name) == <<tableId, rowId, Sanitize(name)>>

\* the position of the last "." of a file name, 0 if it has none
LastDot(name) ==
  IF \E i \in 1..Len(name) : name[i] = "."
  THEN CHOOSE i \in 1..Len(name) :
         name[i] = "." /\ \A j \in (i + 1)..Len(name) : name[j] # "."
  ELSE 0

\* sanitizedFilename.replace(/\.[^.]+$/, ".webp"); "w" stands for "webp"
WebpName(name) ==
  IF LastDot(name) > 0 /\ LastDot(name) < Len(name)
  THEN SubSeq(name, 1, LastDot(name)) \o <<"w">>
  ELSE name

\* sanitizedFilename.toLowerCase().endsWith(".webp")
EndsWithWebp(name) ==
  Len(name) >= 2 /\ name[Len(name) - 1] = "." /\ name[Len(name)] = "w"

\* the key of the revision that stores optimized images: the extension
\* becomes .webp when the stored mime type is image/webp
R2KeyOfStored(tableId, rowId, name, mimeType) ==
  <<tableId, rowId,
    IF mimeType = "image/webp" /\ ~EndsWithWebp(Sanitize(name))
    THEN WebpName(Sanitize(name)) ELSE Sanitize(name)>>

\* `temp/${tableId}/${rowId}/${Date.now()}-${file.id}`
TempKeyOf(tableId, rowId, fileId) == <<tableId, rowId, <<"temp", fileId>>>>

AllKeys ==
  {R2KeyOf(o[1], o[2], n) : o \in Owners, n \in FileNames}
    \cup {R2KeyOfStored(o[1], o[2], n, "image/webp") : o \in Owners, n \in FileNames}
    \cup {TempKeyOf(o[1], o[2], id) : o \in Owners, id \in FileIds}

NoObject == [present |-> FALSE, hash |-> Undefined, fileId |-> Undefined]

\* bucket.head(key): the object, or NoObject
bucketHead(bkt, key) == IF key \in DOMAIN bkt THEN bkt[key] ELSE NoObject

\* generateOptimizedImageUrl: inserts the /cdn-cgi/image/ segment once
generateOptimizedImageUrl(url) ==
  IF url[1] = "cdn" THEN url ELSE <<"cdn", url[2]>>

NoRecord == [status |-> "none"]

\* getImageSyncRecord: ORDER BY id DESC LIMIT 1
getImageSyncRecord(led, fileId) ==
  LET idx == {i \in 1..Len(led) : led[i].google_drive_file_id = fileId}
  IN IF idx = {} THEN NoRecord
     ELSE led[CHOOSE i \in idx : \A j \in idx : j <= i]

\* UPDATE image_sync_records SET r2_url, r2_key, original_size,
\* optimized_size, status, error_message, md5_hash
\* WHERE google_drive_file_id = ?
updateImageSyncRecord(led, record) ==
  [i \in 1..Len(led) |->
     IF led[i].google_drive_file_id = record.google_drive_file_id
     THEN [led[i] EXCEPT !.r2_url = record.r2_url,
                         !.r2_key = record.r2_key,
                         !.original_size = record.original_size,
                         !.optimized_size = record.optimized_size,
                         !.status = record.status,
                         !.error_message = record.error_message,
                         !.md5_hash = record.md5_hash]
     ELSE led[i]]

\* an INSERT that first clears the table
insertImageSyncRecordReplacing(led, record) == <<record>>

\* INSERT INTO image_sync_records (...) VALUES (...)
insertImageSyncRecord(led, record) == Append(led, record)

\* upsertImageSyncRecord: UPDATE of the mutable columns, or INSERT
upsertImageSyncRecord(led, record) ==
  IF getImageSyncRecord(led, record.google_drive_file_id) # NoRecord
  THEN updateImageSyncRecord(led, record)
  ELSE insertImageSyncRecord(led, record)

(* ------------------------- images.ts: one file ------------------------- *)
\* shouldResyncImage that does not notice a missing object
shouldResyncImageNoProbe(existingRecord, file, r2Object) ==
  LET needsResync ==
        IF existingRecord.r2_key # NoKey
        THEN IF /\ r2Object.present
                /\ Truthy(existingRecord.md5_hash)
                /\ Truthy(r2Object.hash)
                /\ existingRecord.md5_hash # r2Object.hash
             THEN TRUE
             ELSE existingRecord.md5_hash # file.md5Checksum
        ELSE TRUE
  IN IF /\ ~needsResync
        /\ existingRecord.md5_hash = file.md5Checksum
        /\ existingRecord.r2_url # NoUrl
     THEN [needsResync |-> FALSE, canReuseUrl |-> TRUE,
           existingUrl |-> existingRecord.r2_url]
     ELSE [needsResync |-> needsResync, canReuseUrl |-> FALSE,
           existingUrl |-> NoUrl]

\* shouldResyncImage that never lets the caller reuse the recorded url
shouldResyncImageAlwaysResync(existingRecord, file, r2Object) ==
  [needsResync |-> TRUE, canReuseUrl |-> FALSE, existingUrl |-> NoUrl]

\* shouldResyncImage; r2Object is what bucket.head(r2_key) returned
shouldResyncImage(existingRecord, file, r2Object) ==
  LET needsResync ==
        IF existingRecord.r2_key # NoKey
        THEN IF ~r2Object.present THEN TRUE
             ELSE IF /\ Truthy(existingRecord.md5_hash)
                     /\ Truthy(r2Object.hash)
                     /\ existingRecord.md5_hash # r2Object.hash
             THEN TRUE
             ELSE existingRecord.md5_hash # file.md5Checksum
        ELSE TRUE
  IN IF /\ ~needsResync
        /\ existingRecord.md5_hash = file.md5Checksum
        /\ existingRecord.r2_url # NoUrl
     THEN [needsResync |-> FALSE, canReuseUrl |-> TRUE,
           existingUrl |-> existingRecord.r2_url]
     ELSE [needsResync |-> needsResync, canReuseUrl |-> FALSE,
           existingUrl |-> NoUrl]

\* the hash column filled with file.md5Checksum as listed
HashAsListed(file) == file.md5Checksum

\* file.md5Checksum || null
HashOrNull(file) == IF Truthy(file.md5Checksum) THEN file.md5Checksum ELSE Null

\* the object uploadImageToR2 puts: x-hash-md5 only when the file has a hash
UploadedObject(file) ==
  [present |-> TRUE,
   hash |-> IF Truthy(file.md5Checksum) THEN file.md5Checksum ELSE Undefined,
   fileId |-> file.id]

\* the success record of a version that leaves r2_key out
SuccessRecordWithoutKey(file, folderId, tableId, rowId, r2Url, r2Key) ==
  [google_drive_file_id |-> file.id, google_drive_folder_id |-> folderId,
   r2_url |-> r2Url, r2_key |-> NoKey,
   table_id |-> tableId, row_id |-> rowId, field_name |-> FieldName,
   original_size |-> FileSize(file.id), optimized_size |-> FileSize(file.id),
   status |-> "processed", error_message |-> Null,
   md5_hash |-> HashOrNull(file), file_name |-> file.name]

\* the record of a successful upload (processSingleImage)
SuccessRecord(file, folderId, tableId, rowId, r2Url, r2Key) ==
  [google_drive_file_id |-> file.id, google_drive_folder_id |-> folderId,
   r2_url |-> r2Url, r2_key |-> r2Key,
   table_id |-> tableId, row_id |-> rowId, field_name |-> FieldName,
   original_size |-> FileSize(file.id), optimized_size |-> FileSize(file.id),
   status |-> "processed", error_message |-> Null,
   md5_hash |-> HashOrNull(file), file_name |-> file.name]

\* the catch block's record, with the wrong status
FailureRecordPending(file, folderId, tableId, rowId, errorMessage) ==
  [google_drive_file_id |-> file.id, google_drive_folder_id |-> folderId,
   r2_url |-> NoUrl, r2_key |-> NoKey,
   table_id |-> tableId, row_id |-> rowId, field_name |-> FieldName,
   original_size |-> NullSize, optimized_size |-> NullSize,
   status |-> "pending", error_message |-> errorMessage,
   md5_hash |-> HashOrNull(file), file_name |-> file.name]

\* the catch block's record, written as if the file had been processed
FailureRecordAsProcessed(file, folderId, tableId, rowId, errorMessage) ==
  [google_drive_file_id |-> file.id, google_drive_folder_id |-> folderId,
   r2_url |-> NoUrl, r2_key |-> NoKey,
   table_id |-> tableId, row_id |-> rowId, field_name |-> FieldName,
   original_size |-> NullSize, optimized_size |-> NullSize,
   status |-> "processed", error_message |-> errorMessage,
   md5_hash |-> HashOrNull(file), file_name |-> file.name]

\* the record the catch block of processSingleImage writes
FailureRecord(file, folderId, tableId, rowId, errorMessage) ==
  [google_drive_file_id |-> file.id, google_drive_folder_id |-> folderId,
   r2_url |-> NoUrl, r2_key |-> NoKey,
   table_id |-> tableId, row_id |-> rowId, field_name |-> FieldName,
   original_size |-> NullSize, optimized_size |-> NullSize,
   status |-> "failed", error_message |-> errorMessage,
   md5_hash |-> HashOrNull(file), file_name |-> file.name]

\* the record tryRecoverFailedImage writes when the old object still exists
RecoveredRecord(existingRecord, file, folderId, tableId, rowId, optimizedUrl) ==
  [google_drive_file_id |-> file.id, google_drive_folder_id |-> folderId,
   r2_url |-> optimizedUrl, r2_key |-> existingRecord.r2_key,
   table_id |-> tableId, row_id |-> rowId, field_name |-> FieldName,
   original_size |-> existingRecord.original_size,
   optimized_size |-> existingRecord.optimized_size,
   status |-> "processed", error_message |-> Null,
   md5_hash |-> IF Truthy(file.md5Checksum) THEN file.md5Checksum
                ELSE existingRecord.md5_hash,
   file_name |-> file.name]

\* the I/O steps of processSingleImage that can fail
FileSteps ==
  {"get", "head", "recHead", "recWrite", "download", "put", "write", "catchWrite"}

\* the message of the error thrown at a step
ErrorMessage(step) ==
  CASE step = "get" -> "D1 error"
    [] step = "head" -> "R2 head error"
    [] step = "download" -> "Download failed"
    [] step = "put" -> "R2 upload failed"
    [] step = "write" -> "D1 error"
    [] step = "sizeWrite" -> "D1 error"

\* the steps inside the try block if the put were issued outside of it
ThrowingStagesWithoutPut == {"get", "head", "download", "write"}

\* the steps whose exception leaves the try block of processSingleImage
ThrowingStages == {"get", "head", "download", "put", "write"}

(***************************************************************************)
(* processSingleImage.  fails is the set of I/O steps that fail in this    *)
(* call.  The result holds the new ledger and bucket, the returned url     *)
(* (NoUrl for null), whether an exception escaped, and a trace (tr) of     *)
(* what the call did.                                                      *)
(***************************************************************************)
processSingleImage(file, folderId, led, bkt, tableId, rowId, fails) ==
  LET existingRecord == getImageSyncRecord(led, file.id)
      isProcessed == existingRecord.status = "processed"
      isFailed == existingRecord.status = "failed"
      \* shouldResyncImage probes the bucket only for a record with a key
      probes == isProcessed /\ existingRecord.r2_key # NoKey
      seen == IF probes THEN bucketHead(bkt, existingRecord.r2_key) ELSE NoObject
      syncCheck == IF isProcessed
                   THEN shouldResyncImage(existingRecord, file, seen)
                   ELSE [needsResync |-> TRUE, canReuseUrl |-> FALSE,
                         existingUrl |-> NoUrl]
      reuse == isProcessed /\ syncCheck.canReuseUrl /\ syncCheck.existingUrl # NoUrl
      \* tryRecoverFailedImage: its own try/catch swallows a failing head or upsert
      recProbes == /\ isFailed
                   /\ existingRecord.r2_url # NoUrl
                   /\ existingRecord.r2_key # NoKey
      recFound == /\ recProbes
                  /\ "recHead" \notin fails
                  /\ bucketHead(bkt, existingRecord.r2_key).present
      recovered == recFound /\ "recWrite" \notin fails
      optimizedUrl == IF recProbes
                      THEN generateOptimizedImageUrl(existingRecord.r2_url)
                      ELSE NoUrl
      \* uploadImageToR2
      r2Key == R2KeyOf(tableId, rowId, file.name)
      r2Url == generateOptimizedImageUrl(<<"plain", r2Key>>)
      stage == IF "get" \in fails THEN "get"
               ELSE IF probes /\ "head" \in fails THEN "head"
               ELSE IF reuse THEN "reuse"
               ELSE IF recovered THEN "recovered"
               ELSE IF "download" \in fails THEN "download"
               ELSE IF "put" \in fails THEN "put"
               ELSE IF "write" \in fails THEN "write"
               ELSE "success"
      caught == stage \in ThrowingStages
      downloads == stage \in {"download", "put", "write", "success"}
      puts == stage \in {"put", "write", "success"}
      ran == {"get"}
             \cup (IF stage # "get" /\ probes THEN {"head"} ELSE {})
             \cup (IF stage \notin {"get", "head"} /\ recProbes THEN {"recHead"} ELSE {})
             \cup (IF stage \notin {"get", "head"} /\ recFound THEN {"recWrite"} ELSE {})
             \cup (IF downloads THEN {"download"} ELSE {})
             \cup (IF puts THEN {"put"} ELSE {})
             \cup (IF stage \in {"write", "success"} THEN {"write"} ELSE {})
             \cup (IF caught THEN {"catchWrite"} ELSE {})
      bkt1 == IF stage \in {"write", "success"}
              THEN [bkt EXCEPT ![r2Key] = UploadedObject(file)]
              ELSE bkt
      led1 == IF stage = "recovered"
              THEN upsertImageSyncRecord(led,
                     RecoveredRecord(existingRecord, file, folderId, tableId, rowId,
                                     optimizedUrl))
              ELSE IF stage = "success"
              THEN upsertImageSyncRecord(led,
                     SuccessRecord(file, folderId, tableId, rowId, r2Url, r2Key))
              ELSE IF caught /\ "catchWrite" \notin fails
              THEN upsertImageSyncRecord(led,
                     FailureRecord(file, folderId, tableId, rowId, ErrorMessage(stage)))
              ELSE led
      url == IF stage = "reuse" THEN syncCheck.existingUrl
             ELSE IF stage = "recovered" THEN optimizedUrl
             ELSE IF stage = "success" THEN r2Url
             ELSE NoUrl
  IN [led |-> led1, bkt |-> bkt1, url |-> url,
      threw |-> caught /\ "catchWrite" \in fails,
      tr |-> [file |-> file, rec |-> existingRecord, stage |-> stage,
              ran |-> ran, fails |-> fails,
              probed |-> IF "head" \in ran THEN existingRecord.r2_key ELSE NoKey,
              seen |-> seen,
              recSeen |-> IF recProbes /\ stage \notin {"get", "head"}
                                      /\ "recHead" \notin fails
                          THEN bucketHead(bkt, existingRecord.r2_key)
                          ELSE NoObject,
              dlTried |-> downloads,
              dlOk |-> puts,
              put |-> IF puts THEN r2Key ELSE NoKey,
              putOk |-> stage \in {"write", "success"},
              wrote |-> \/ stage \in {"recovered", "success"}
                        \/ caught /\ "catchWrite" \notin fails,
              url |-> url]]

(* ------------------------------- state --------------------------------- *)
VARIABLES
  remote,    \* the Drive folder: files present, their names and md5Checksums
  cfg,       \* the worker's environment (Drive credentials)
  ledger,    \* image_sync_records, rows in insertion (id) order
  bucket,    \* the R2 bucket: key -> object
  rows,      \* the *_r2_urls column of each row
  pc,        \* position of the operation in flight
  pass,      \* parameters and locals of the current processImagesFromFolder call
  log,       \* what the current operation did so far
  pre,       \* ledger and bucket when the current operation started
  prev,      \* summary of the sync pass that ran immediately before
  between,   \* environment changes between that pass and the current one
  since,     \* environment changes since the last operation finished
  ev,        \* the last deleteRowImages call
  assoc,     \* per row: r2 keys that upserts stored in its ledger records
  ops, envs, faults,
  upserts,   \* the upsertImageSyncRecord calls in flight, one per process
  derived,   \* the puts of uploadImageToR2: the owner of the pass and the key
  http,      \* the HTTP requests handled so far and what they started
  hook       \* the rows.deleted webhook being processed and the D1 table

vars == <<remote, cfg, ledger, bucket, rows, pc, pass, log, pre, prev, between,
          since, ev, assoc, ops, envs, faults, upserts,
          derived, http, hook>>

\* the processes (in-flight passes) that call upsertImageSyncRecord
Procs == {1, 2}

\* no upsertImageSyncRecord call was made yet
NoCall == [pc |-> "idle", record |-> NoRecord, existing |-> NoRecord, n |-> 0,
           overlap |-> FALSE]

\* no request was handled yet
NoHttp == [n |-> 0, request |-> [path |-> "none"], status |-> 0, job |-> "none",
           started |-> <<>>]

\* no webhook was received yet; the D1 table of the synced Baserow table
\* holds both rows
NoHook == [pc |-> "idle", n |-> 0, rowIds |-> <<>>, idx |-> 0, table |-> {1, 2},
           evicted |-> {}, unlisted |-> {}, removed |-> 0, outcome |-> "none"]

ImageIds == {id \in FileIds : IsImage(DriveFile(id, <<>>, Undefined))}

NoChange == [hash |-> {}, listing |-> FALSE, deleted |-> {}, tampered |-> {},
             renamed |-> {}]

NoPass == [url |-> <<>>, tableId |-> 0, rowId |-> 0, tableName |-> FALSE,
           folderId |-> NoFolder, listed |-> <<>>, files |-> <<>>, idx |-> 0,
           r2Urls |-> <<>>, outcome |-> "none", error |-> "none"]

NoLog == [per |-> <<>>, faults |-> 0, listTried |-> FALSE, listFailed |-> FALSE,
          wroteBack |-> FALSE]

NoPrev == [valid |-> FALSE, tableId |-> 0, rowId |-> 0, folderId |-> NoFolder,
           outcome |-> "none", r2Urls |-> <<>>, faults |-> 0]

NoEvict == [tableId |-> 0, rowId |-> 0, calls |-> <<>>, failed |-> {},
            count |-> 0, outcome |-> "none", assoc |-> {}, error |-> "none"]

\* the folders a run starts from: no image, one image, two images whose
\* names sanitize to different keys or to the same key; the second image
\* may be listed without md5Checksum
InitialFolders ==
  LET Folder(p, nB, hB) ==
        [present |-> p,
         name |-> [id \in FileIds |->
                     CASE id = "fA" -> <<"a", " ", "b", ".", "j">>
                       [] id = "fB" -> nB
                       [] id = "fD" -> <<"d", ".", "t">>],
         hash |-> [id \in FileIds |->
                     CASE id = "fA" -> "h1"
                       [] id = "fB" -> hB
                       [] id = "fD" -> Undefined]]
  IN {Folder({"fD"}, <<"c", ".", "p">>, "h2"),
      Folder({"fA", "fD"}, <<"c", ".", "p">>, "h2")}
     \cup {Folder({"fA", "fB", "fD"}, nB, hB) :
             nB \in {<<"a", "_", "b", ".", "j">>, <<"c", ".", "p">>},
             hB \in {"h2", Undefined}}

Init ==
  /\ remote \in InitialFolders
  /\ cfg \in [creds : {"apikey", "none"}]
  /\ ledger = <<>>
  /\ bucket = [k \in AllKeys |-> NoObject]
  /\ rows = [o \in Owners |-> <<>>]
  /\ pc = "idle"
  /\ pass = NoPass
  /\ log = NoLog
  /\ pre = [ledger |-> <<>>, bucket |-> [k \in AllKeys |-> NoObject]]
  /\ prev = NoPrev
  /\ between = NoChange
  /\ since = NoChange
  /\ ev = NoEvict
  /\ assoc = [o \in Owners |-> {}]
  /\ ops = 0 /\ envs = 0 /\ faults = 0
  /\ upserts = [p \in Procs |-> NoCall]
  /\ derived = {}
  /\ http = NoHttp
  /\ hook = NoHook

\* no operation is in flight
AtRest == pc \in {"idle", "done", "evicted"}

\* the summary of the pass that just finished, kept for the next one
Summary ==
  IF pc = "done" /\ pass.outcome = "returned"
  THEN [valid |-> TRUE, tableId |-> pass.tableId, rowId |-> pass.rowId,
        folderId |-> pass.folderId, outcome |-> pass.outcome,
        r2Urls |-> pass.r2Urls, faults |-> log.faults]
  ELSE NoPrev

(* ------------------- images.ts: processImagesFromFolder ---------------- *)
\* the call up to the per-file loop: resolve, credentials, list, filter
StartSync(folderUrl, tableId, rowId, tableName, listFails) ==
  LET folderId == extractDriveFolderId(folderUrl)
      accessToken == getAccessToken(cfg)
      lists == folderId # NoFolder /\ accessToken # Null
      driveFiles == IF lists /\ ~listFails
                    THEN listDriveFiles(folderId, remote) ELSE <<>>
      imageFiles == SelectSeq(driveFiles, IsImage)
      error == IF folderId = NoFolder THEN "Invalid Google Drive folder URL"
               ELSE IF accessToken = Null
               THEN "Google Drive credentials not configured"
               ELSE IF listFails THEN "Drive API error"
               ELSE "none"
  IN /\ AtRest
     /\ ops < MaxOps
     /\ listFails => lists /\ faults < MaxFaults
     /\ ops' = ops + 1
     /\ faults' = IF listFails THEN faults + 1 ELSE faults
     /\ prev' = Summary
     /\ between' = since
     /\ since' = NoChange
     /\ pre' = [ledger |-> ledger, bucket |-> bucket]
     /\ log' = [NoLog EXCEPT !.faults = IF listFails THEN 1 ELSE 0,
                             !.listTried = lists,
                             !.listFailed = listFails]
     /\ pass' = [url |-> folderUrl, tableId |-> tableId, rowId |-> rowId,
                 tableName |-> tableName, folderId |-> folderId,
                 listed |-> driveFiles, files |-> imageFiles, idx |-> 1,
                 r2Urls |-> <<>>,
                 outcome |-> IF error # "none" THEN "threw"
                             ELSE IF Len(imageFiles) = 0 THEN "returned"
                             ELSE "running",
                 error |-> error]
     /\ pc' = IF error = "none" /\ Len(imageFiles) > 0 THEN "files" ELSE "done"
     /\ UNCHANGED <<remote, cfg, ledger, bucket, rows, ev, assoc, envs, upserts,
                 derived, http, hook>>

\* the r2 keys of the rows of led that belong to (tableId, rowId)
KeysOfRow(led, o) ==
  {led[i].r2_key : i \in {j \in 1..Len(led) :
      /\ led[j].table_id = o[1] /\ led[j].row_id = o[2]
      /\ led[j].r2_key # NoKey}}

\* one iteration of the loop: processSingleImage for imageFiles[idx]
ProcessFile(fails) ==
  /\ pc = "files"
  /\ Cardinality(fails) <= MaxFaults - faults
  /\ LET file == pass.files[pass.idx]
         r == processSingleImage(file, pass.folderId, ledger, bucket,
                                 pass.tableId, pass.rowId, fails)
     IN /\ fails \subseteq r.tr.ran
        /\ ledger' = r.led
        /\ bucket' = r.bkt
        /\ faults' = faults + Cardinality(fails)
        /\ log' = [log EXCEPT !.per = Append(@, r.tr),
                              !.faults = @ + Cardinality(fails)]
        /\ assoc' = [o \in Owners |-> assoc[o] \cup KeysOfRow(r.led, o)]
        /\ pass' = [pass EXCEPT
                      !.r2Urls = IF r.url # NoUrl THEN Append(@, r.url) ELSE @,
                      !.idx = @ + 1,
                      !.outcome = IF r.threw THEN "threw" ELSE @,
                      !.error = IF r.threw THEN "D1 error" ELSE @]
        /\ pc' = IF r.threw THEN "done"
                 ELSE IF pass.idx = Len(pass.files) THEN "finish"
                 ELSE "files"
  /\ UNCHANGED <<remote, cfg, rows, pre, prev, between, since, ev, ops, envs,
                 upserts,
                 derived, http, hook>>

\* after the loop: updateRowWithR2Urls when a table name was given; its
\* failure is caught and logged
FinishSync(writeBackFails) ==
  LET writesBack == pass.tableName /\ Len(pass.r2Urls) > 0
  IN /\ pc = "finish"
     /\ writeBackFails => writesBack /\ faults < MaxFaults
     /\ rows' = IF writesBack /\ ~writeBackFails
                THEN [rows EXCEPT ![<<pass.tableId, pass.rowId>>] = pass.r2Urls]
                ELSE rows
     /\ faults' = IF writeBackFails THEN faults + 1 ELSE faults
     /\ log' = [log EXCEPT !.faults = IF writeBackFails THEN @ + 1 ELSE @,
                           !.wroteBack = writesBack /\ ~writeBackFails]
     /\ pass' = [pass EXCEPT !.outcome = "returned"]
     /\ pc' = "done"
     /\ UNCHANGED <<remote, cfg, ledger, bucket, pre, prev, between, since, ev,
                    assoc, ops, envs, upserts,
                 derived, http, hook>>

(* ----------------------- images.ts: deleteRowImages --------------------- *)
\* deletedCount, counting the delete calls instead of the deletes that returned
DeletedCountAttempted(calls, failed) == Len(calls)

\* deletedCount: incremented after each bucket.delete that did not throw
DeletedCount(calls, failed) == Len(calls) - Cardinality(failed)

\* SELECT r2_key ... WHERE table_id = ? AND row_id = ? AND r2_key IS NOT NULL
SelectKeys(led, tableId, rowId) ==
  LET Matches(r) == r.table_id = tableId /\ r.row_id = rowId /\ r.r2_key # NoKey
      matching == SelectSeq(led, Matches)
  IN [i \in 1..Len(matching) |-> matching[i].r2_key]

\* a DELETE that repeats the SELECT's condition r2_key IS NOT NULL
DeleteRecordsWithKey(led, tableId, rowId) ==
  LET Keeps(r) == ~(r.table_id = tableId /\ r.row_id = rowId /\ r.r2_key # NoKey)
  IN SelectSeq(led, Keeps)

\* DELETE FROM image_sync_records WHERE table_id = ? AND row_id = ?
DeleteRecords(led, tableId, rowId) ==
  LET Keeps(r) == ~(r.table_id = tableId /\ r.row_id = rowId)
  IN SelectSeq(led, Keeps)

\* deleteRowImages; failed is the set of delete calls (by position) that throw
\* a loop over the keys that ends at the first bucket.delete that throws
DeletedKeysUntilFailure(calls, failed) ==
  {calls[i] : i \in {j \in 1..Len(calls) : \A f \in failed : j < f}}

\* the keys whose bucket.delete returned: each call has its own try/catch
DeletedKeys(calls, failed) == {calls[i] : i \in (1..Len(calls)) \ failed}

EvictOwner(tableId, rowId, selectFails, failed, deleteFails) ==
  LET calls == IF selectFails THEN <<>> ELSE SelectKeys(ledger, tableId, rowId)
      used == Cardinality(failed) + (IF selectFails THEN 1 ELSE 0)
                                  + (IF deleteFails THEN 1 ELSE 0)
      deleted == DeletedKeys(calls, failed)
      threw == selectFails \/ deleteFails
  IN /\ AtRest
     /\ ops < MaxOps
     /\ failed \subseteq 1..Len(calls)
     /\ ~(selectFails /\ deleteFails)
     /\ used <= MaxFaults - faults
     /\ ops' = ops + 1
     /\ faults' = faults + used
     /\ pre' = [ledger |-> ledger, bucket |-> bucket]
     /\ bucket' = [k \in AllKeys |-> IF k \in deleted THEN NoObject ELSE bucket[k]]
     /\ ledger' = IF threw THEN ledger ELSE DeleteRecords(ledger, tableId, rowId)
     /\ ev' = [tableId |-> tableId, rowId |-> rowId, calls |-> calls,
               failed |-> failed,
               count |-> DeletedCount(calls, failed),
               outcome |-> IF threw THEN "threw" ELSE "returned",
               assoc |-> assoc[<<tableId, rowId>>],
               error |-> IF threw THEN "D1 error" ELSE "none"]
     /\ assoc' = IF threw THEN assoc
                 ELSE [assoc EXCEPT ![<<tableId, rowId>>] = {}]
     /\ log' = [NoLog EXCEPT !.faults = used]
     /\ pass' = NoPass
     /\ prev' = NoPrev
     /\ between' = NoChange
     /\ since' = NoChange
     /\ pc' = "evicted"
     /\ UNCHANGED <<remote, cfg, rows, envs, upserts,
                 derived, http, hook>>

(* ----------------------------- environment ----------------------------- *)
\* the environment moves only between operations
EnvMayMove == pc \in {"done", "evicted"} /\ envs < MaxEnv /\ ops < MaxOps

\* a hash different from h
OtherHash(h) == IF h = "h1" THEN "h2" ELSE "h1"

\* the content of a Drive file is replaced: Drive reports another md5Checksum
ChangeHash(id) ==
  /\ EnvMayMove
  /\ id \in remote.present /\ id \in ImageIds
  /\ remote' = [remote EXCEPT !.hash[id] = OtherHash(@)]
  /\ since' = [since EXCEPT !.hash = @ \cup {id}]
  /\ envs' = envs + 1
  /\ UNCHANGED <<cfg, ledger, bucket, rows, pc, pass, log, pre, prev, between,
                 ev, assoc, ops, faults, upserts,
                 derived, http, hook>>

\* a file is added to or removed from the Drive folder
ChangeListing(id) ==
  /\ EnvMayMove
  /\ remote' = [remote EXCEPT !.present =
                  IF id \in @ THEN @ \ {id} ELSE @ \cup {id}]
  /\ since' = [since EXCEPT !.listing = TRUE]
  /\ envs' = envs + 1
  /\ UNCHANGED <<cfg, ledger, bucket, rows, pc, pass, log, pre, prev, between,
                 ev, assoc, ops, faults, upserts,
                 derived, http, hook>>

\* the name a Drive user gives a file when renaming it
NewName(name) ==
  IF name = <<"c", ".", "p">> THEN <<"b", ".", "j">> ELSE name

\* a file of the Drive folder is renamed; its id and content stay
RenameFile(id) ==
  /\ EnvMayMove
  /\ id \in remote.present
  /\ NewName(remote.name[id]) # remote.name[id]
  /\ remote' = [remote EXCEPT !.name[id] = NewName(@)]
  /\ since' = [since EXCEPT !.renamed = @ \cup {id}]
  /\ envs' = envs + 1
  /\ UNCHANGED <<cfg, ledger, bucket, rows, pc, pass, log, pre, prev, between,
                 ev, assoc, ops, faults, upserts,
                 derived, http, hook>>

\* an object is deleted from the bucket behind the worker's back
OobDelete(key) ==
  /\ EnvMayMove
  /\ bucket[key].present
  /\ bucket' = [bucket EXCEPT ![key] = NoObject]
  /\ since' = [since EXCEPT !.deleted = @ \cup {key}]
  /\ envs' = envs + 1
  /\ UNCHANGED <<remote, cfg, ledger, rows, pc, pass, log, pre, prev, between,
                 ev, assoc, ops, faults, upserts,
                 derived, http, hook>>

\* an object is overwritten behind the worker's back: other x-hash-md5
OobTamper(key) ==
  /\ EnvMayMove
  /\ bucket[key].present
  /\ bucket' = [bucket EXCEPT ![key].hash = OtherHash(@)]
  /\ since' = [since EXCEPT !.tampered = @ \cup {key}]
  /\ envs' = envs + 1
  /\ UNCHANGED <<remote, cfg, ledger, rows, pc, pass, log, pre, prev, between,
                 ev, assoc, ops, faults, upserts,
                 derived, http, hook>>

(* --------------------------- specification ----------------------------- *)
\* the rows whose folder field the trigger surface hands to the engine
SyncedRows == {<<1, 1>>}

\* whether processImagesFromFolder is given a tableName; no caller in
\* index.ts passes one
TableNameArgs == {FALSE}

\* the sets of failing steps that the fault budget allows in one call
FaultSets == {F \in SUBSET FileSteps : Cardinality(F) <= MaxFaults}

\* the sets of failing delete calls that the fault budget allows
FaultyCalls == {F \in SUBSET (1..Cardinality(FileIds)) : Cardinality(F) <= MaxFaults}

Next ==
  \/ \E u \in FolderUrls, o \in SyncedRows, n \in TableNameArgs, lf \in BOOLEAN :
        StartSync(u, o[1], o[2], n, lf)
  \/ \E fails \in FaultSets : ProcessFile(fails)
  \/ \E wf \in BOOLEAN : FinishSync(wf)
  \/ \E o \in SyncedRows, sf \in BOOLEAN, df \in BOOLEAN, failed \in FaultyCalls :
        EvictOwner(o[1], o[2], sf, failed, df)
  \/ \E id \in ImageIds : ChangeHash(id)
  \/ \E id \in ImageIds : ChangeListing(id)
  \/ \E id \in ImageIds : RenameFile(id)
  \/ \E k \in AllKeys : OobDelete(k)
  \/ \E k \in AllKeys : OobTamper(k)

Spec == Init /\ [][Next]_vars

(* ------------- images.ts: upsertImageSyncRecord, interleaved ----------- *)
\* the records that the passes of the processes hand to upsertImageSyncRecord:
\* success and failure records of two files, for either row
UpsertRecords ==
  LET fileA == DriveFile("fA", <<"a", " ", "b", ".", "j">>, "h1")
      fileB == DriveFile("fB", <<"c", ".", "p">>, "h2")
      Success(f, r) ==
        SuccessRecord(f, RealFolder, 1, r,
                      generateOptimizedImageUrl(<<"plain", R2KeyOf(1, r, f.name)>>),
                      R2KeyOf(1, r, f.name))
      Failure(f, r) == FailureRecord(f, RealFolder, 1, r, ErrorMessage("download"))
  IN {Success(f, r) : f \in {fileA, fileB}, r \in RowIds}
     \cup {Failure(f, r) : f \in {fileA, fileB}, r \in RowIds}

\* a call is between its entry and its write
InFlight(c) == c.pc \in {"read", "write"}

\* a pass of process p upserts upsertImageSyncRecord(db, record)
UpsertCall(p, record) ==
  /\ upserts[p].pc \in {"idle", "done"}
  /\ upserts[p].n < MaxUpserts
  /\ upserts' = [q \in Procs |->
                 IF q = p
                 THEN [pc |-> "read", record |-> record, existing |-> NoRecord,
                       n |-> upserts[p].n + 1,
                       overlap |-> \E o \in Procs \ {p} : InFlight(upserts[o])]
                 ELSE [upserts[q] EXCEPT !.overlap = @ \/ InFlight(upserts[q])]]
  /\ UNCHANGED <<remote, cfg, ledger, bucket, rows, pc, pass, log, pre, prev,
                 between, since, ev, assoc, ops, envs, faults,
                 derived, http, hook>>

\* const existing = await getImageSyncRecord(db, record.google_drive_file_id)
UpsertRead(p) ==
  /\ upserts[p].pc = "read"
  /\ upserts' = [upserts EXCEPT
                 ![p].existing =
                    getImageSyncRecord(ledger, upserts[p].record.google_drive_file_id),
                 ![p].pc = "write"]
  /\ UNCHANGED <<remote, cfg, ledger, bucket, rows, pc, pass, log, pre, prev,
                 between, since, ev, assoc, ops, envs, faults,
                 derived, http, hook>>

\* if (existing) UPDATE ... else INSERT ..., decided by what the call read
UpsertWrite(p) ==
  /\ upserts[p].pc = "write"
  /\ ledger' = IF upserts[p].existing # NoRecord
               THEN updateImageSyncRecord(ledger, upserts[p].record)
               ELSE insertImageSyncRecord(ledger, upserts[p].record)
  /\ upserts' = [upserts EXCEPT ![p].pc = "done"]
  /\ UNCHANGED <<remote, cfg, bucket, rows, pc, pass, log, pre, prev,
                 between, since, ev, assoc, ops, envs, faults,
                 derived, http, hook>>

InitUpsert ==
  /\ Init
  /\ remote.present = {"fA", "fB", "fD"}
  /\ remote.name["fB"] = <<"c", ".", "p">>
  /\ remote.hash["fB"] = "h2"
  /\ cfg.creds = "apikey"

NextUpsert ==
  \/ \E p \in Procs, record \in UpsertRecords : UpsertCall(p, record)
  \/ \E p \in Procs : UpsertRead(p)
  \/ \E p \in Procs : UpsertWrite(p)

SpecUpsert == InitUpsert /\ [][NextUpsert]_vars

(* ------------- images.ts: uploadImageToR2, key derivation -------------- *)
\* the image fields of a row (index.ts: for (const field of imageFields))
FieldNames == {"photos", "plans"}

\* the tables whose rows carry image fields
KeyTableIds == {1, 2}

\* the owners a pass can be invoked for: (tableId, rowId, fieldName)
FieldOwners == KeyTableIds \X RowIds \X FieldNames

\* a pass invoked for (tableId, rowId, fieldName) uploads a file called name:
\* uploadImageToR2 receives tableId and rowId, not fieldName
UploadFor(tableId, rowId, fieldName, name) ==
  /\ Cardinality(derived) < MaxPuts
  /\ derived' = derived \cup
        {[owner |-> <<tableId, rowId, fieldName>>,
          key |-> R2KeyOf(tableId, rowId, name)]}
  /\ UNCHANGED <<remote, cfg, ledger, bucket, rows, pc, pass, log, pre, prev,
                 between, since, ev, assoc, ops, envs, faults, upserts, http, hook>>

NextKeys ==
  \E o \in FieldOwners, name \in FileNames : UploadFor(o[1], o[2], o[3], name)

SpecKeys == InitUpsert /\ [][NextKeys]_vars

(* ------------------------ auth.ts: webhook signature ------------------- *)
\* a missing header (request.headers.get returns null)
NoHeader == <<>>

\* the webhook bodies: a rows.created payload, JSON without event_type, and
\* text that JSON.parse rejects
Bodies == {"created", "noevent", "garbage"}

\* the secrets a sender may hold; the worker is configured with "s1" or none
Secrets == {"s1", "s2"}

\* the hex digits of HMAC-SHA256(secret, body), shortened to four digits
Hmac(secret, body) ==
  CASE secret = "s1" /\ body = "created" -> <<"a", "1", "b", "2">>
    [] secret = "s1" /\ body = "noevent" -> <<"a", "1", "c", "3">>
    [] secret = "s1" /\ body = "garbage" -> <<"d", "4", "e", "5">>
    [] secret = "s2" /\ body = "created" -> <<"f", "6", "a", "1">>
    [] secret = "s2" /\ body = "noevent" -> <<"c", "3", "d", "4">>
    [] secret = "s2" /\ body = "garbage" -> <<"b", "2", "f", "6">>

\* c.toLowerCase()
LowerCase(c) ==
  CASE c = "A" -> "a" [] c = "B" -> "b" [] c = "C" -> "c"
    [] c = "D" -> "d" [] c = "E" -> "e" [] c = "F" -> "f"
    [] OTHER -> c

\* c.toUpperCase()
UpperCase(c) ==
  CASE c = "a" -> "A" [] c = "b" -> "B" [] c = "c" -> "C"
    [] c = "d" -> "D" [] c = "e" -> "E" [] c = "f" -> "F"
    [] OTHER -> c

\* signature.replace(/-/g, "").toLowerCase()
Normalize(signature) ==
  LET NotDash(c) == c # "-"
      kept == SelectSeq(signature, NotDash)
  IN [i \in 1..Len(kept) |-> LowerCase(kept[i])]

\* btoa of the signature bytes: a text that is no hex string
Base64(hex) == <<"b64:">> \o hex

\* the first half of the hex digits (32 of 64)
TruncatedHex(hex) == SubSeq(hex, 1, Len(hex) \div 2)

\* the forms in which a sender writes the signature of a body
SignatureForms(hex) ==
  { hex,
    <<UpperCase(hex[1]), UpperCase(hex[2]), "-">> \o SubSeq(hex, 3, Len(hex)),
    TruncatedHex(hex),
    Base64(hex) }

\* verifyWebhookSignature that accepts a request without signature header
verifyWebhookSignatureLenient(bodyText, signature, env) ==
  IF ~Truthy(env.WEBHOOK_SECRET) THEN TRUE
  ELSE IF signature = NoHeader THEN TRUE
  ELSE LET hex == Hmac(env.WEBHOOK_SECRET, bodyText)
           normalizedSignature == Normalize(signature)
       IN \/ normalizedSignature = hex
          \/ normalizedSignature = TruncatedHex(hex)
          \/ signature = Base64(hex)

\* verifyWebhookSignature
verifyWebhookSignature(bodyText, signature, env) ==
  IF ~Truthy(env.WEBHOOK_SECRET) THEN TRUE
  ELSE IF signature = NoHeader THEN FALSE
  ELSE LET hex == Hmac(env.WEBHOOK_SECRET, bodyText)
           normalizedSignature == Normalize(signature)
       IN \/ Len(normalizedSignature) = Len(hex) /\ normalizedSignature = hex
          \/ /\ Len(normalizedSignature) = Len(hex) \div 2
             /\ normalizedSignature = TruncatedHex(hex)
          \/ signature = Base64(hex)

(* ----------------------------- index.ts: fetch ------------------------- *)
\* nothing is started by a request
NoJob == "none"

\* body.event_type after JSON.parse, for the bodies that parse
EventType(body) == IF body = "created" THEN "rows.created" ELSE Undefined

\* handleWebhook: parse, validate, verify, then start processWebhook
handleWebhook(request, env) ==
  IF request.body = "garbage" THEN [status |-> 400, job |-> NoJob]
  ELSE IF ~Truthy(EventType(request.body)) THEN [status |-> 400, job |-> NoJob]
  ELSE IF /\ Truthy(env.WEBHOOK_SECRET)
          /\ ~verifyWebhookSignature(request.body, request.signature, env)
  THEN [status |-> 401, job |-> NoJob]
  ELSE [status |-> 200, job |-> "processWebhook"]

\* the fetch handler that does not compare the Authorization header
fetchUnauthenticated(request, env) ==
  IF request.method = "OPTIONS" THEN [status |-> 200, job |-> NoJob]
  ELSE IF \/ request.path = "/health"
          \/ request.path = "/" /\ request.method = "GET"
  THEN [status |-> 200, job |-> NoJob]
  ELSE IF request.path = "/webhook" /\ request.method = "POST"
  THEN handleWebhook(request, env)
  ELSE IF request.path = "/sync" /\ ~Truthy(env.SYNC_SECRET)
  THEN [status |-> 500, job |-> NoJob]
  ELSE IF request.path = "/sync" /\ request.method \in {"GET", "POST"}
  THEN [status |-> 200, job |-> "handleFullSync"]
  ELSE [status |-> 404, job |-> NoJob]

\* the fetch handler: the response status and what the request started
fetch(request, env) ==
  IF request.method = "OPTIONS" THEN [status |-> 200, job |-> NoJob]
  ELSE IF \/ request.path = "/health"
          \/ request.path = "/" /\ request.method = "GET"
  THEN [status |-> 200, job |-> NoJob]
  ELSE IF request.path = "/webhook" /\ request.method = "POST"
  THEN handleWebhook(request, env)
  ELSE IF request.path = "/sync" /\ ~Truthy(env.SYNC_SECRET)
  THEN [status |-> 500, job |-> NoJob]
  ELSE IF request.path = "/sync" /\ request.authorization # <<"Bearer", env.SYNC_SECRET>>
  THEN [status |-> 401, job |-> NoJob]
  ELSE IF request.path = "/sync" /\ request.method \in {"GET", "POST"}
  THEN [status |-> 200, job |-> "handleFullSync"]
  ELSE [status |-> 404, job |-> NoJob]

\* the Authorization headers a client sends
AuthorizationHeaders ==
  {NoHeader, <<"Bearer", "s1">>, <<"Bearer", "s2">>, <<"Basic", "s1">>}

\* the X-Baserow-Signature headers a sender writes for body
SignatureHeaders(body) ==
  {NoHeader} \cup UNION {SignatureForms(Hmac(k, body)) : k \in Secrets}

\* the requests that reach the worker
Requests ==
  UNION {[path : {"/webhook", "/sync", "/", "/x"},
          method : {"GET", "POST", "PUT", "OPTIONS"},
          authorization : AuthorizationHeaders,
          signature : SignatureHeaders(body),
          body : {body}] : body \in Bodies}

\* the worker handles one request
Fetch(request) ==
  LET response == fetch(request, cfg)
  IN /\ http.n < MaxRequests
     /\ http' = [n |-> http.n + 1, request |-> request,
                 status |-> response.status, job |-> response.job,
                 started |-> IF response.job = NoJob THEN http.started
                             ELSE Append(http.started, response.job)]
     /\ UNCHANGED <<remote, cfg, ledger, bucket, rows, pc, pass, log, pre, prev,
                    between, since, ev, assoc, ops, envs, faults, upserts,
                    derived, hook>>

\* the worker's secrets are configured or not
InitHttp ==
  /\ remote \in {r \in InitialFolders : r.present = {"fD"}}
  /\ cfg \in [creds : {"apikey"}, WEBHOOK_SECRET : {"s1", Undefined},
              SYNC_SECRET : {"s1", Undefined}]
  /\ ledger = <<>>
  /\ bucket = [k \in AllKeys |-> NoObject]
  /\ rows = [o \in Owners |-> <<>>]
  /\ pc = "idle"
  /\ pass = NoPass
  /\ log = NoLog
  /\ pre = [ledger |-> <<>>, bucket |-> [k \in AllKeys |-> NoObject]]
  /\ prev = NoPrev
  /\ between = NoChange
  /\ since = NoChange
  /\ ev = NoEvict
  /\ assoc = [o \in Owners |-> {}]
  /\ ops = 0 /\ envs = 0 /\ faults = 0
  /\ upserts = [p \in Procs |-> NoCall]
  /\ derived = {}
  /\ http = NoHttp
  /\ hook = NoHook

NextHttp == \E request \in Requests : Fetch(request)

SpecHttp == InitHttp /\ [][NextHttp]_vars

(* ------------- images.ts: a pass over a ledger left behind ------------- *)
\* the key and the urls under which the image "a b.j" of row (1, 1) is stored
LeftKey == R2KeyOf(1, 1, <<"a", " ", "b", ".", "j">>)

\* the records of the image "a b.j" that a pass may find in the ledger: a
\* Failed or Processed record, with or without r2_key and r2_url
LeftRecords ==
  LET file == DriveFile("fA", <<"a", " ", "b", ".", "j">>, "h1")
      Base(status) ==
        IF status = "failed"
        THEN FailureRecord(file, RealFolder, 1, 1, ErrorMessage("write"))
        ELSE SuccessRecord(file, RealFolder, 1, 1, <<"plain", LeftKey>>, LeftKey)
  IN {[Base(status) EXCEPT !.r2_key = key, !.r2_url = url] :
        status \in {"failed", "processed"},
        key \in {NoKey, LeftKey},
        url \in {NoUrl, <<"plain", LeftKey>>, <<"cdn", LeftKey>>}}

\* the ledger holds one record of the image, the bucket its blob or nothing
InitLeft ==
  /\ remote \in {r \in InitialFolders : r.present = {"fA", "fD"}}
  /\ cfg \in [creds : {"apikey"}]
  /\ \E rec \in LeftRecords : ledger = <<rec>>
  /\ \E obj \in {NoObject, UploadedObject(DriveFile("fA", <<>>, "h1"))} :
        bucket = [k \in AllKeys |-> IF k = LeftKey THEN obj ELSE NoObject]
  /\ rows = [o \in Owners |-> <<>>]
  /\ pc = "idle"
  /\ pass = NoPass
  /\ log = NoLog
  /\ pre = [ledger |-> ledger, bucket |-> bucket]
  /\ prev = NoPrev
  /\ between = NoChange
  /\ since = NoChange
  /\ ev = NoEvict
  /\ assoc = [o \in Owners |-> KeysOfRow(ledger, o)]
  /\ ops = 0 /\ envs = 0 /\ faults = 0
  /\ upserts = [p \in Procs |-> NoCall]
  /\ derived = {}
  /\ http = NoHttp
  /\ hook = NoHook

NextLeft ==
  \/ \E u \in FolderUrls, o \in SyncedRows, lf \in BOOLEAN :
        StartSync(u, o[1], o[2], FALSE, lf)
  \/ \E fails \in FaultSets : ProcessFile(fails)
  \/ \E wf \in BOOLEAN : FinishSync(wf)

SpecLeft == InitLeft /\ [][NextLeft]_vars

(* --------- images.ts: the revision that optimizes before upload -------- *)
\* parseInt of a value that is not a number
NotANumber == -1

\* parseInt(String(value), 10) for the values MAX_IMAGE_SIZE is set to
ParseInt(value) == IF value = "50" THEN 50 ELSE NotANumber

\* getEnvNumber: the parsed value, or the default when the variable is
\* missing or does not parse
getEnvNumber(env, key, defaultValue) ==
  IF env[key] = Undefined \/ env[key] = Null THEN defaultValue
  ELSE IF ParseInt(env[key]) = NotANumber THEN defaultValue
  ELSE ParseInt(env[key])

\* shouldConvertToWebP
shouldConvertToWebP(mimeType) == mimeType \in {"image/jpeg", "image/png"}

\* the byteLengths of the bodies the Image Resizing API answers with
ResizedSizes == {15, 18, 19, 38}

\* no request was sent to the Image Resizing API
NoResponse == [kind |-> "none", size |-> 0]

\* the answers of the Image Resizing API: a body, a status that is not OK, a
\* network error, or none within 30 seconds
Responses ==
  {[kind |-> "ok", size |-> n] : n \in ResizedSizes}
    \cup {[kind |-> k, size |-> 0] : k \in {"notOk", "error", "timeout"}}

\* a threshold that also accepts an output of exactly 95% of the original
MeaningfullySmallerOrEqual(optimizedSize, originalSize) ==
  optimizedSize * 100 <= originalSize * 95

\* optimizedSize < originalSize * 0.95, in whole numbers
MeaningfullySmaller(optimizedSize, originalSize) ==
  optimizedSize * 100 < originalSize * 95

\* optimizeImage that hands back an empty buffer when the API did not answer
optimizeImageEmptyOnFailure(imageSize, tempPutFails, response) ==
  IF tempPutFails THEN [same |-> TRUE, size |-> imageSize]
  ELSE IF response.kind # "ok" THEN [same |-> FALSE, size |-> 0]
  ELSE IF MeaningfullySmaller(response.size, imageSize)
  THEN [same |-> FALSE, size |-> response.size]
  ELSE [same |-> TRUE, size |-> imageSize]

\* optimizeImage: the buffer it returns, as its byteLength and whether it is
\* imageData itself; every failure returns imageData
optimizeImage(imageSize, tempPutFails, response) ==
  IF tempPutFails \/ response.kind # "ok" THEN [same |-> TRUE, size |-> imageSize]
  ELSE IF MeaningfullySmaller(response.size, imageSize)
  THEN [same |-> FALSE, size |-> response.size]
  ELSE [same |-> TRUE, size |-> imageSize]

\* what the loop stores: the optimized buffer when it is below 95% of the
\* original (as image/webp when below 80% and the format allows it), else
\* the original bytes and mime type
StoredOutput(file, imageSize, optimized) ==
  IF ~optimized.same /\ MeaningfullySmaller(optimized.size, imageSize)
  THEN [size |-> optimized.size, original |-> FALSE,
        mimeType |-> IF /\ shouldConvertToWebP(file.mimeType)
                        /\ optimized.size * 10 < imageSize * 8
                     THEN "image/webp" ELSE file.mimeType]
  ELSE [size |-> imageSize, original |-> TRUE, mimeType |-> file.mimeType]

\* the record written for a file above MAX_IMAGE_SIZE
OversizeRecord(file, folderId, tableId, rowId, originalSize) ==
  [FailureRecord(file, folderId, tableId, rowId, "File size exceeds maximum")
     EXCEPT !.original_size = originalSize]

\* the object left under the temporary key when its delete fails
TempObject(file) == [present |-> TRUE, hash |-> Undefined, fileId |-> file.id]

\* the I/O steps of one iteration of the loop that can fail
OptimizeSteps ==
  {"get", "head", "recHead", "recWrite", "download", "sizeWrite", "tempPut",
   "tempDelete", "put", "write", "catchWrite"}

(***************************************************************************)
(* One iteration of the loop of processImagesFromFolder in the revision    *)
(* that optimizes before upload.  fails is the set of failing I/O steps,   *)
(* response the answer of the Image Resizing API.  urls are the            *)
(* references pushed to r2Urls.                                            *)
(***************************************************************************)
processImageOptimizing(file, folderId, led, bkt, tableId, rowId, maxImageSize, fails, response) ==
  LET existingRecord == getImageSyncRecord(led, file.id)
      isProcessed == existingRecord.status = "processed"
      isFailed == existingRecord.status = "failed"
      probes == isProcessed /\ existingRecord.r2_key # NoKey
      seen == IF probes THEN bucketHead(bkt, existingRecord.r2_key) ELSE NoObject
      skip == /\ isProcessed
              /\ ~shouldResyncImage(existingRecord, file, seen).needsResync
              /\ existingRecord.md5_hash = file.md5Checksum
      recProbes == /\ isFailed
                   /\ existingRecord.r2_url # NoUrl
                   /\ existingRecord.r2_key # NoKey
      recFound == /\ recProbes
                  /\ "recHead" \notin fails
                  /\ bucketHead(bkt, existingRecord.r2_key).present
      recovered == recFound /\ "recWrite" \notin fails
      imageSize == FileSize(file.id)
      optimized == optimizeImage(imageSize, "tempPut" \in fails, response)
      out == StoredOutput(file, imageSize, optimized)
      r2Key == R2KeyOfStored(tableId, rowId, file.name, out.mimeType)
      r2Url == <<"plain", r2Key>>
      tempKey == TempKeyOf(tableId, rowId, file.id)
      stage == IF "get" \in fails THEN "get"
               ELSE IF probes /\ "head" \in fails THEN "head"
               ELSE IF skip THEN "reuse"
               ELSE IF recovered THEN "recovered"
               ELSE IF "download" \in fails THEN "download"
               ELSE IF imageSize > maxImageSize
               THEN (IF "sizeWrite" \in fails THEN "sizeWrite" ELSE "oversize")
               ELSE IF "put" \in fails THEN "put"
               ELSE IF "write" \in fails THEN "write"
               ELSE "success"
      caught == stage \in {"get", "head", "download", "sizeWrite", "put", "write"}
      downloads == stage \in {"download", "sizeWrite", "oversize", "put", "write",
                              "success"}
      transforms == stage \in {"put", "write", "success"}
      pushedEarly == recFound /\ stage \notin {"get", "head"}
      ran == {"get"}
             \cup (IF stage # "get" /\ probes THEN {"head"} ELSE {})
             \cup (IF stage \notin {"get", "head"} /\ recProbes THEN {"recHead"} ELSE {})
             \cup (IF stage \notin {"get", "head"} /\ recFound THEN {"recWrite"} ELSE {})
             \cup (IF downloads THEN {"download"} ELSE {})
             \cup (IF stage \in {"sizeWrite", "oversize"} THEN {"sizeWrite"} ELSE {})
             \cup (IF transforms THEN {"tempPut", "tempDelete", "put"} ELSE {})
             \cup (IF stage \in {"write", "success"} THEN {"write"} ELSE {})
             \cup (IF caught THEN {"catchWrite"} ELSE {})
      bkt0 == IF transforms /\ "tempPut" \notin fails /\ "tempDelete" \in fails
              THEN [bkt EXCEPT ![tempKey] = TempObject(file)]
              ELSE bkt
      bkt1 == IF stage \in {"write", "success"}
              THEN [bkt0 EXCEPT ![r2Key] = UploadedObject(file)]
              ELSE bkt0
      led1 == IF stage = "recovered"
              THEN upsertImageSyncRecord(led,
                     RecoveredRecord(existingRecord, file, folderId, tableId, rowId,
                                     existingRecord.r2_url))
              ELSE IF stage = "oversize"
              THEN upsertImageSyncRecord(led,
                     OversizeRecord(file, folderId, tableId, rowId, imageSize))
              ELSE IF stage = "success"
              THEN upsertImageSyncRecord(led,
                     [SuccessRecord(file, folderId, tableId, rowId, r2Url, r2Key)
                        EXCEPT !.optimized_size = out.size])
              ELSE IF caught /\ "catchWrite" \notin fails
              THEN upsertImageSyncRecord(led,
                     FailureRecord(file, folderId, tableId, rowId, ErrorMessage(stage)))
              ELSE led
      urls == (IF (stage = "reuse" /\ existingRecord.r2_url # NoUrl) \/ pushedEarly
               THEN <<existingRecord.r2_url>> ELSE <<>>)
              \o (IF stage = "success" THEN <<r2Url>> ELSE <<>>)
  IN [led |-> led1, bkt |-> bkt1, urls |-> urls,
      threw |-> caught /\ "catchWrite" \in fails,
      tr |-> [file |-> file, rec |-> existingRecord, stage |-> stage,
              ran |-> ran, fails |-> fails,
              probed |-> IF "head" \in ran THEN existingRecord.r2_key ELSE NoKey,
              seen |-> seen,
              recSeen |-> IF recProbes /\ stage \notin {"get", "head"}
                                      /\ "recHead" \notin fails
                          THEN bucketHead(bkt, existingRecord.r2_key)
                          ELSE NoObject,
              dlTried |-> downloads,
              dlOk |-> downloads /\ stage # "download",
              put |-> IF transforms THEN r2Key ELSE NoKey,
              putOk |-> stage \in {"write", "success"},
              wrote |-> \/ stage \in {"recovered", "oversize", "success"}
                        \/ (caught /\ "catchWrite" \notin fails),
              url |-> IF urls = <<>> THEN NoUrl ELSE urls[Len(urls)],
              urls |-> urls,
              response |-> response,
              transformed |-> transforms,
              stored |-> out]]

\* one iteration of the loop for imageFiles[idx]
ProcessFileOptimizing(fails, response) ==
  /\ pc = "files"
  /\ LET file == pass.files[pass.idx]
         r == processImageOptimizing(file, pass.folderId, ledger, bucket,
                pass.tableId, pass.rowId,
                getEnvNumber(cfg, "MAX_IMAGE_SIZE", DefaultMaxImageSize),
                fails, response)
         used == Cardinality(fails)
                 + (IF response.kind \in {"ok", "none"} THEN 0 ELSE 1)
     IN /\ used <= MaxFaults - faults
        /\ fails \subseteq r.tr.ran
        /\ response # NoResponse <=> r.tr.transformed /\ "tempPut" \notin fails
        /\ ledger' = r.led
        /\ bucket' = r.bkt
        /\ faults' = faults + used
        /\ log' = [log EXCEPT !.per = Append(@, r.tr), !.faults = @ + used]
        /\ assoc' = [o \in Owners |-> assoc[o] \cup KeysOfRow(r.led, o)]
        /\ pass' = [pass EXCEPT
                      !.r2Urls = @ \o r.urls,
                      !.idx = @ + 1,
                      !.outcome = IF r.threw THEN "threw" ELSE @,
                      !.error = IF r.threw THEN "D1 error" ELSE @]
        /\ pc' = IF r.threw THEN "done"
                 ELSE IF pass.idx = Len(pass.files) THEN "finish"
                 ELSE "files"
  /\ UNCHANGED <<remote, cfg, rows, pre, prev, between, since, ev, ops, envs,
                 upserts, derived, http, hook>>

\* the worker with MAX_IMAGE_SIZE unset, set to 50, or set to text; the
\* Drive folder holds a jpeg of 20 bytes and a png of 40 bytes
InitOptimize ==
  /\ remote \in {r \in InitialFolders :
                   /\ r.present = {"fA", "fB", "fD"}
                   /\ r.name["fB"] = <<"c", ".", "p">>
                   /\ r.hash["fB"] = "h2"}
  /\ cfg \in [creds : {"apikey"}, MAX_IMAGE_SIZE : {Undefined, "50", "x"}]
  /\ ledger = <<>>
  /\ bucket = [k \in AllKeys |-> NoObject]
  /\ rows = [o \in Owners |-> <<>>]
  /\ pc = "idle"
  /\ pass = NoPass
  /\ log = NoLog
  /\ pre = [ledger |-> <<>>, bucket |-> [k \in AllKeys |-> NoObject]]
  /\ prev = NoPrev
  /\ between = NoChange
  /\ since = NoChange
  /\ ev = NoEvict
  /\ assoc = [o \in Owners |-> {}]
  /\ ops = 0 /\ envs = 0 /\ faults = 0
  /\ upserts = [p \in Procs |-> NoCall]
  /\ derived = {}
  /\ http = NoHttp
  /\ hook = NoHook

\* the sets of failing steps that the fault budget allows in one iteration
OptimizeFaultSets == {F \in SUBSET OptimizeSteps : Cardinality(F) <= MaxFaults}

NextOptimize ==
  \/ \E u \in FolderUrls, o \in SyncedRows, lf \in BOOLEAN :
        StartSync(u, o[1], o[2], FALSE, lf)
  \/ \E fails \in OptimizeFaultSets, response \in Responses \cup {NoResponse} :
        ProcessFileOptimizing(fails, response)
  \/ \E wf \in BOOLEAN : FinishSync(wf)

SpecOptimize == InitOptimize /\ [][NextOptimize]_vars

(* --------------------- index.ts: rows.deleted webhook ------------------ *)
\* the row_ids of a rows.deleted payload
DeletedRowIds == {<<1>>, <<2>>, <<1, 2>>, <<2, 1>>}

\* the table of the payload (table_id)
HookTableId == 1

\* processWebhook for a rows.deleted payload, up to the loop of
\* handleRowsDeleted: without BASEROW_API_TOKEN it returns at once; a failing
\* "SELECT 1" makes it throw
ReceiveRowsDeleted(rowIds, probeFails) ==
  LET skips == ~Truthy(cfg.BASEROW_API_TOKEN)
  IN /\ AtRest
     /\ hook.pc \in {"idle", "done"}
     /\ hook.n < MaxWebhooks
     /\ probeFails => ~skips /\ faults < MaxFaults
     /\ faults' = IF probeFails THEN faults + 1 ELSE faults
     /\ hook' = [hook EXCEPT
                   !.n = @ + 1,
                   !.rowIds = rowIds,
                   !.idx = 1,
                   !.evicted = {},
                   !.unlisted = {},
                   !.removed = 0,
                   !.pc = IF skips \/ probeFails THEN "done" ELSE "rows",
                   !.outcome = IF skips THEN "skipped"
                               ELSE IF probeFails THEN "threw"
                               ELSE "running"]
     /\ UNCHANGED <<remote, cfg, ledger, bucket, rows, pc, pass, log, pre, prev,
                    between, since, ev, assoc, ops, envs, upserts, derived, http>>

\* one iteration of handleRowsDeleted: fetchTables, DELETE FROM the D1 table
\* when the table is found, then deleteRowImages; any failure but that of a
\* bucket.delete leaves the loop and is thrown by processWebhook
DeleteRow(found, fetchFails, rowFails, selectFails, failed, deleteFails) ==
  LET rowId == hook.rowIds[hook.idx]
      deletesRow == ~fetchFails /\ found
      evicts == ~fetchFails /\ ~(deletesRow /\ rowFails)
      calls == IF evicts /\ ~selectFails
               THEN SelectKeys(ledger, HookTableId, rowId) ELSE <<>>
      deleted == {calls[i] : i \in (1..Len(calls)) \ failed}
      threw == fetchFails \/ (deletesRow /\ rowFails) \/ selectFails \/ deleteFails
      used == Cardinality(failed) + Cardinality({b \in
                {<<1, fetchFails>>, <<2, rowFails>>, <<3, selectFails>>,
                 <<4, deleteFails>>} : b[2]})
  IN /\ hook.pc = "rows"
     /\ rowFails => deletesRow
     /\ selectFails => evicts
     /\ deleteFails => evicts /\ ~selectFails
     /\ failed \subseteq 1..Len(calls)
     /\ used <= MaxFaults - faults
     /\ faults' = faults + used
     /\ bucket' = [k \in AllKeys |-> IF k \in deleted THEN NoObject ELSE bucket[k]]
     /\ ledger' = IF threw THEN ledger
                  ELSE DeleteRecords(ledger, HookTableId, rowId)
     /\ assoc' = IF threw THEN assoc
                 ELSE [assoc EXCEPT ![<<HookTableId, rowId>>] = {}]
     /\ hook' = [hook EXCEPT
                   !.table = IF deletesRow /\ ~rowFails THEN @ \ {rowId} ELSE @,
                   !.evicted = IF threw THEN @ ELSE @ \cup {rowId},
                   !.unlisted = IF ~fetchFails /\ ~found THEN @ \cup {rowId} ELSE @,
                   !.removed = IF threw THEN @
                               ELSE @ + Len(ledger)
                                      - Len(DeleteRecords(ledger, HookTableId, rowId)),
                   !.idx = IF threw THEN @ ELSE @ + 1,
                   !.pc = IF threw \/ hook.idx = Len(hook.rowIds)
                          THEN "done" ELSE "rows",
                   !.outcome = IF threw THEN "threw"
                               ELSE IF hook.idx = Len(hook.rowIds) THEN "returned"
                               ELSE @]
     /\ UNCHANGED <<remote, cfg, rows, pc, pass, log, pre, prev, between, since,
                    ev, ops, envs, upserts, derived, http>>

\* the worker with or without BASEROW_API_TOKEN; the Drive folder holds
\* two images
InitWebhook ==
  /\ remote \in {r \in InitialFolders :
                   /\ r.present = {"fA", "fB", "fD"}
                   /\ r.name["fB"] = <<"c", ".", "p">>
                   /\ r.hash["fB"] = "h2"}
  /\ cfg \in [creds : {"apikey"}, BASEROW_API_TOKEN : {"tok", Undefined}]
  /\ ledger = <<>>
  /\ bucket = [k \in AllKeys |-> NoObject]
  /\ rows = [o \in Owners |-> <<>>]
  /\ pc = "idle"
  /\ pass = NoPass
  /\ log = NoLog
  /\ pre = [ledger |-> <<>>, bucket |-> [k \in AllKeys |-> NoObject]]
  /\ prev = NoPrev
  /\ between = NoChange
  /\ since = NoChange
  /\ ev = NoEvict
  /\ assoc = [o \in Owners |-> {}]
  /\ ops = 0 /\ envs = 0 /\ faults = 0
  /\ upserts = [p \in Procs |-> NoCall]
  /\ derived = {}
  /\ http = NoHttp
  /\ hook = NoHook

\* passes for either row fill the ledger before the webhook arrives
NextWebhook ==
  \/ /\ hook.pc = "idle"
     /\ \E u \in FolderUrls, o \in Owners : StartSync(u, o[1], o[2], FALSE, FALSE)
  \/ \E fails \in FaultSets : ProcessFile(fails)
  \/ FinishSync(FALSE)
  \/ \E rowIds \in DeletedRowIds, pf \in BOOLEAN : ReceiveRowsDeleted(rowIds, pf)
  \/ \E found \in BOOLEAN, ff \in BOOLEAN, rf \in BOOLEAN, sf \in BOOLEAN,
        df \in BOOLEAN, failed \in FaultyCalls :
        DeleteRow(found, ff, rf, sf, failed, df)

SpecWebhook == InitWebhook /\ [][NextWebhook]_vars

(* -------- index.ts: a row deleted while its sync is in flight ---------- *)
\* the row whose folder field is synced and which is then deleted
RaceOwner == <<1, 1>>

\* deleteRowImages up to the end of its loop, started while the pass that
\* handleRowsCreated did not await is still running: SELECT of the keys and
\* bucket.delete of each
RaceSelectAndDelete ==
  LET calls == SelectKeys(ledger, RaceOwner[1], RaceOwner[2])
  IN /\ pc \in {"files", "finish"}
     /\ ev.outcome = "none"
     /\ ops < MaxOps
     /\ ops' = ops + 1
     /\ bucket' = [k \in AllKeys |->
                     IF k \in DeletedKeys(calls, {}) THEN NoObject ELSE bucket[k]]
     /\ ev' = [tableId |-> RaceOwner[1], rowId |-> RaceOwner[2], calls |-> calls,
               failed |-> {}, count |-> DeletedCount(calls, {}),
               outcome |-> "selected", assoc |-> assoc[RaceOwner],
               error |-> "none"]
     /\ UNCHANGED <<remote, cfg, ledger, rows, pc, pass, log, pre, prev, between,
                    since, assoc, envs, faults, upserts, derived, http, hook>>

\* the DELETE FROM image_sync_records that ends deleteRowImages
RaceDeleteRecords ==
  /\ ev.outcome = "selected"
  /\ ledger' = DeleteRecords(ledger, ev.tableId, ev.rowId)
  /\ assoc' = [assoc EXCEPT ![<<ev.tableId, ev.rowId>>] = {}]
  /\ ev' = [ev EXCEPT !.outcome = "returned"]
  /\ UNCHANGED <<remote, cfg, bucket, rows, pc, pass, log, pre, prev, between,
                 since, ops, envs, faults, upserts, derived, http, hook>>

\* the worker with Drive credentials and a Drive folder that holds two images
InitRace ==
  /\ remote \in {r \in InitialFolders :
                   /\ r.present = {"fA", "fB", "fD"}
                   /\ r.name["fB"] = <<"c", ".", "p">>
                   /\ r.hash["fB"] = "h2"}
  /\ cfg \in [creds : {"apikey"}]
  /\ ledger = <<>>
  /\ bucket = [k \in AllKeys |-> NoObject]
  /\ rows = [o \in Owners |-> <<>>]
  /\ pc = "idle"
  /\ pass = NoPass
  /\ log = NoLog
  /\ pre = [ledger |-> <<>>, bucket |-> [k \in AllKeys |-> NoObject]]
  /\ prev = NoPrev
  /\ between = NoChange
  /\ since = NoChange
  /\ ev = NoEvict
  /\ assoc = [o \in Owners |-> {}]
  /\ ops = 0 /\ envs = 0 /\ faults = 0
  /\ upserts = [p \in Procs |-> NoCall]
  /\ derived = {}
  /\ http = NoHttp
  /\ hook = NoHook

\* passes for the row run until the row is deleted; no pass is started for
\* a deleted row
NextRace ==
  \/ /\ ev.outcome = "none"
     /\ \E u \in FolderUrls : StartSync(u, RaceOwner[1], RaceOwner[2], FALSE, FALSE)
  \/ \E fails \in FaultSets : ProcessFile(fails)
  \/ FinishSync(FALSE)
  \/ RaceSelectAndDelete
  \/ RaceDeleteRecords

SpecRace == InitRace /\ [][NextRace]_vars

(* ------------------------------ properties ----------------------------- *)
\* the current processImagesFromFolder call has returned to its caller and
\* nothing has happened since
SyncReturned == pc = "done" /\ pass.outcome = "returned" /\ since = NoChange

\* the current call repeats the call before it: same row, same folder, and
\* no other operation in between
Repeats ==
  /\ prev.valid
  /\ prev.tableId = pass.tableId /\ prev.rowId = pass.rowId
  /\ prev.folderId = pass.folderId

\* no I/O step failed in the current call nor in the call before it
FaultFree == log.faults = 0 /\ prev.faults = 0

\* the ids of the files the current call downloaded (tried to)
Downloaded == {log.per[i].file.id : i \in {j \in DOMAIN log.per : log.per[j].dlTried}}

\* the ids of the files for which the current call issued a put
Uploaded == {log.per[i].file.id : i \in {j \in DOMAIN log.per : log.per[j].put # NoKey}}

\* the keys the current call put to
PutKeys == {log.per[i].put : i \in {j \in DOMAIN log.per : log.per[j].put # NoKey}}

\* C1: a sync call that repeats the call before it, with no change of the
\* Drive folder and no out-of-band change of the bucket in between (and no
\* I/O failure in either call), performs no put and returns the same list.
C1_Idempotent ==
  (/\ SyncReturned /\ Repeats /\ FaultFree /\ between = NoChange
   /\ \A i \in DOMAIN pass.files : Truthy(pass.files[i].md5Checksum))
    => (PutKeys = {} /\ pass.r2Urls = prev.r2Urls)

\* the traces of the files the current call has examined that had a record
Examined == {log.per[i] : i \in {j \in DOMAIN log.per : log.per[j].rec # NoRecord}}

\* RemoteFile.contentHash differs from the record's stored contentHash
Differs(tr) == tr.file.md5Checksum # tr.rec.md5_hash

\* the record is Processed and the probe found its blob, with a metadata
\* hash that does not contradict the record
Intact(tr) ==
  /\ tr.rec.status = "processed"
  /\ tr.probed # NoKey
  /\ tr.seen.present
  /\ tr.seen.hash \in {tr.rec.md5_hash, Undefined}

ListedIds == {pass.files[i].id : i \in DOMAIN pass.files}

\* every listed image file has an md5Checksum
AllHashed == \A i \in DOMAIN pass.files : Truthy(pass.files[i].md5Checksum)

\* when the current call started, every listed image file was Processed
AllProcessedBefore ==
  \A id \in ListedIds : getImageSyncRecord(pre.ledger, id).status = "processed"

\* C3: all files Processed by the pass before; then exactly one file's
\* remote hash changes; the repeated pass downloads and uploads exactly that
\* file, returns a reference for every file, and puts to no key of another
\* file (no I/O failure in either pass).
C3_OneChangeOneTransfer ==
  \A f \in FileIds :
    (/\ SyncReturned /\ Repeats /\ FaultFree /\ AllHashed /\ AllProcessedBefore
     /\ f \in ListedIds
     /\ between = [NoChange EXCEPT !.hash = {f}])
      => /\ Downloaded = {f}
         /\ Uploaded = {f}
         /\ Len(pass.r2Urls) = Len(pass.files)
         /\ \A g \in ListedIds \ {f} :
              getImageSyncRecord(pre.ledger, g).r2_key \notin PutKeys

\* the listed files whose Processed record points at key k
Victims(k) ==
  {id \in ListedIds :
     /\ getImageSyncRecord(pre.ledger, id).status = "processed"
     /\ getImageSyncRecord(pre.ledger, id).r2_key = k}

\* C4: the blob of a Processed record is deleted out-of-band; the repeated
\* pass downloads and uploads exactly that one file, leaves its record
\* Processed with the blob back in place, and returns for every other file
\* the reference the pass before returned (no I/O failure in either pass).
C4_SelfHealing ==
  \A k \in AllKeys :
    (/\ SyncReturned /\ Repeats /\ FaultFree /\ AllHashed
     /\ Victims(k) # {}
     /\ between = [NoChange EXCEPT !.deleted = {k}])
      => /\ Cardinality(Downloaded) = 1
         /\ Downloaded \subseteq Victims(k)
         /\ Uploaded = Downloaded
         /\ \A id \in Downloaded :
              getImageSyncRecord(ledger, id).status = "processed"
         /\ bucket[k].present
         /\ Len(pass.r2Urls) = Len(prev.r2Urls)
         /\ \A i \in DOMAIN pass.files :
              pass.files[i].id \notin Downloaded =>
                /\ i \in DOMAIN pass.r2Urls /\ i \in DOMAIN prev.r2Urls
                /\ pass.r2Urls[i] = prev.r2Urls[i]

\* the listing of the current call succeeded and holds no file with an image
\* mime type
NoImageListed ==
  /\ log.listTried /\ ~log.listFailed
  /\ \A i \in DOMAIN pass.listed : pass.listed[i].mimeType \notin ImageMimeTypes

\* C5: a pass whose listing holds no image file returns the empty list,
\* processes no file (no ledger read or write, no head, no put) and leaves
\* the ledger and the bucket as they were when it started.
C5_EmptyListingTouchesNothing ==
  (pc = "done" /\ since = NoChange /\ NoImageListed)
    => /\ pass.outcome = "returned"
       /\ pass.r2Urls = <<>>
       /\ log.per = <<>>
       /\ ledger = pre.ledger
       /\ bucket = pre.bucket

\* a pass over a folder without images, for a row that has records and blobs
C5_Witness ==
  /\ pc = "done" /\ since = NoChange /\ NoImageListed
  /\ pass.outcome = "returned"
  /\ Len(pre.ledger) > 0
  /\ \E k \in AllKeys : pre.bucket[k].present

\* the positions of the listed image files whose processing met a failure
FailedPositions == {i \in DOMAIN log.per : log.per[i].fails # {}}

\* the current pass went through its whole listing of N >= 1 images; the
\* download of exactly one file failed and no other step failed
OneDownloadFailed ==
  /\ pc = "done" /\ since = NoChange
  /\ ~log.listFailed
  /\ Len(pass.files) >= 1
  /\ Len(log.per) = Len(pass.files)
  /\ Cardinality(FailedPositions) = 1
  /\ \A i \in FailedPositions : log.per[i].fails = {"download"}

\* C6: N image files, the download of exactly one fails: the pass returns
\* N-1 references without throwing, and among the N files exactly the one
\* whose download failed has a Failed record.
C6_OneFailureIsolated ==
  OneDownloadFailed
    => /\ pass.outcome = "returned"
       /\ Len(pass.r2Urls) = Len(pass.files) - 1
       /\ {id \in ListedIds : getImageSyncRecord(ledger, id).status = "failed"}
            = {log.per[i].file.id : i \in FailedPositions}

\* two images, one download fails
C6_Witness ==
  /\ OneDownloadFailed
  /\ Len(pass.files) = 2
  /\ Len(pass.r2Urls) = 1

\* the last deleteRowImages call has returned to its caller
EvictReturned == pc = "evicted" /\ ev.outcome = "returned"

\* the keys for which the last deleteRowImages call issued a delete
DeleteCalls == {ev.calls[i] : i \in DOMAIN ev.calls}

\* C7: after deleteRowImages returns, the ledger holds no record of the row
\* and a delete was issued for every key that a ledger record of the row
\* held after some earlier pass.
C7_EvictionComplete ==
  EvictReturned
    => /\ \A i \in DOMAIN ledger :
            ~(ledger[i].table_id = ev.tableId /\ ledger[i].row_id = ev.rowId)
       /\ ev.assoc \subseteq DeleteCalls

\* C8 as stated: deleteRowImages returns the number of keys for which a
\* delete was attempted, a failing delete included.
C8_CountsAttempts ==
  EvictReturned => ev.count = Len(ev.calls)

\* C8 amended: deleteRowImages returns the number of delete calls that
\* succeeded; a failing delete is attempted but not counted.
C8_CountsSuccesses ==
  EvictReturned
    => ev.count = Cardinality({i \in DOMAIN ev.calls : i \notin ev.failed})

\* an eviction with two delete calls of which one failed
C8_Witness ==
  /\ EvictReturned
  /\ Len(ev.calls) = 2
  /\ Cardinality(ev.failed) = 1
  /\ ev.count = 1

\* folderRef holds a folder id: a "/folders/" segment followed by an id
\* character, or nothing but id characters, at least MinBareIdLen of them
Resolvable(url) ==
  \/ \E i \in 1..(Len(url) - 1) : url[i] = "/folders/" /\ url[i + 1] \in IdChars
  \/ /\ Len(url) >= MinBareIdLen
     /\ \A i \in 1..Len(url) : url[i] \in IdChars

\* C9: a pass whose folderRef holds no folder id throws "Invalid Google
\* Drive folder URL" without having listed the folder or processed a file,
\* and leaves the ledger and the bucket as they were.
C9_InvalidReferenceFirst ==
  (pc = "done" /\ ~Resolvable(pass.url))
    => /\ pass.outcome = "threw"
       /\ pass.error = "Invalid Google Drive folder URL"
       /\ ~log.listTried
       /\ log.per = <<>>
       /\ pass.listed = <<>>
       /\ since = NoChange => ledger = pre.ledger /\ bucket = pre.bucket

\* a pass with an unresolvable folderRef for a row that has records and blobs
C9_Witness ==
  /\ pc = "done" /\ ~Resolvable(pass.url) /\ since = NoChange
  /\ pass.outcome = "threw"
  /\ Len(pre.ledger) > 0
  /\ \E k \in AllKeys : pre.bucket[k].present

\* a step of the processing of one file failed and the failure was recorded
Converted(tr) ==
  /\ getImageSyncRecord(ledger, tr.file.id).status = "failed"
  /\ tr.url = NoUrl

RowsOf(id) == {i \in DOMAIN ledger : ledger[i].google_drive_file_id = id}

\* C11: the ledger holds at most one row per Drive file id, also when the
\* upserts of two passes interleave.
C11_OneRecordPerFile ==
  \A id \in FileIds : Cardinality(RowsOf(id)) <= 1

\* both processes have finished one upsert each, for the same Drive file, and
\* the two upserts overlapped
TwoConcurrentUpserts ==
  /\ \A p \in Procs : upserts[p].pc = "done" /\ upserts[p].n = 1 /\ upserts[p].overlap
  /\ upserts[1].record.google_drive_file_id = upserts[2].record.google_drive_file_id

\* C12: after two overlapping upserts for one Drive file the record of the
\* file equals, in every column, the record that one of the two upserts passed.
C12_LastWriterWins ==
  TwoConcurrentUpserts
    => getImageSyncRecord(ledger, upserts[1].record.google_drive_file_id)
         \in {upserts[p].record : p \in Procs}

\* C13: every ledger row with status "processed" has a non-null r2_key.
C13_ProcessedHasKey ==
  \A i \in DOMAIN ledger :
    ledger[i].status = "processed" => ledger[i].r2_key # NoKey

\* a row that is Processed again after it had been Failed, next to a Failed row
C13_Witness ==
  /\ pc = "done"
  /\ \E i \in DOMAIN log.per :
        /\ log.per[i].rec.status = "failed"
        /\ log.per[i].stage = "success"
        /\ getImageSyncRecord(ledger, log.per[i].file.id).status = "processed"
  /\ \E i \in DOMAIN ledger : ledger[i].status = "failed"

\* the x-hash-md5 of an object agrees with the md5_hash of a record: equal,
\* or both absent
HashAgrees(objectHash, recordHash) ==
  IF Truthy(recordHash) THEN objectHash = recordHash ELSE ~Truthy(objectHash)

\* the records that the current pass left Processed
LeftProcessed ==
  {r \in {getImageSyncRecord(ledger, log.per[i].file.id) : i \in DOMAIN log.per} :
     r.status = "processed"}

\* C14: at the end of a pass, in a run without out-of-band change of the
\* bucket, every record the pass left Processed has an object at its r2_key
\* whose x-hash-md5 agrees with the record's md5_hash.
C14_ProcessedHasBlob ==
  (/\ pc = "done" /\ since = NoChange
   /\ between.deleted = {} /\ between.tampered = {})
    => \A r \in LeftProcessed :
         /\ r.r2_key # NoKey
         /\ bucket[r.r2_key].present
         /\ HashAgrees(bucket[r.r2_key].hash, r.md5_hash)

\* the processing of the file threw and the catch block wrote its record
CaughtAndRecorded(tr) ==
  /\ tr.fails # {}
  /\ "catchWrite" \notin tr.fails
  /\ tr.url = NoUrl
  /\ getImageSyncRecord(ledger, tr.file.id).status = "failed"

\* the key under which a blob of the file was uploaded: by this attempt
\* before a later step threw, else by the attempt that the record remembers
UploadedKey(tr) ==
  IF tr.putOk THEN tr.put
  ELSE IF tr.rec # NoRecord THEN tr.rec.r2_key
  ELSE NoKey

\* C15: a Failed record written for a file of which a blob had been
\* uploaded keeps the r2_key and the r2_url of that upload.
C15_FailedKeepsKey ==
  \A i \in DOMAIN log.per :
    (CaughtAndRecorded(log.per[i]) /\ UploadedKey(log.per[i]) # NoKey)
      => /\ getImageSyncRecord(ledger, log.per[i].file.id).r2_key
              = UploadedKey(log.per[i])
         /\ getImageSyncRecord(ledger, log.per[i].file.id).r2_url # NoUrl

\* the object behind a returned reference
ObjectBehind(url) == bucket[url[2]]

\* C16: when a pass returns, no returned reference points at an object whose
\* x-hash-md5 differs from the md5Checksum that the listing gave for the file.
C16_NoStaleReference ==
  SyncReturned
    => \A i \in DOMAIN log.per :
         log.per[i].url # NoUrl
           => ~(/\ ObjectBehind(log.per[i].url).present
                /\ Truthy(ObjectBehind(log.per[i].url).hash)
                /\ ObjectBehind(log.per[i].url).hash # log.per[i].file.md5Checksum)

\* the file of tr was uploaded before, for the row of the current pass, and
\* the current pass uploaded it again
Reprocessed(tr) ==
  /\ tr.put # NoKey
  /\ tr.rec # NoRecord
  /\ tr.rec.r2_key # NoKey
  /\ tr.rec.r2_key[1] = pass.tableId /\ tr.rec.r2_key[2] = pass.rowId

C18_OwnersDisjoint ==
  \A a, b \in derived : a.owner # b.owner => a.key # b.key

\* the last request was a webhook delivery: POST /webhook
WebhookRequest ==
  http.n > 0 /\ http.request.path = "/webhook" /\ http.request.method = "POST"

\* the signature header of the last request is one of the spellings of the
\* HMAC of its body under the configured WEBHOOK_SECRET
SignatureVerifies ==
  /\ Truthy(cfg.WEBHOOK_SECRET)
  /\ http.request.signature
       \in SignatureForms(Hmac(cfg.WEBHOOK_SECRET, http.request.body))

\* the last request started job
Started(job) == http.n > 0 /\ http.job = job

SyncRequest == http.n > 0 /\ http.request.path = "/sync"

\* the Authorization header of the last request is "Bearer <SYNC_SECRET>"
BearerMatches ==
  /\ Truthy(cfg.SYNC_SECRET)
  /\ http.request.authorization = <<"Bearer", cfg.SYNC_SECRET>>

HookRows == {hook.rowIds[i] : i \in DOMAIN hook.rowIds}

\* the ledger holds a record of row (HookTableId, r)
HasRecord(r) ==
  \E i \in DOMAIN ledger :
    ledger[i].table_id = HookTableId /\ ledger[i].row_id = r

\* processWebhook has finished without throwing
HookCompleted == hook.pc = "done" /\ hook.outcome # "threw"

HashValue(h) == IF Truthy(h) THEN h ELSE "absent"

\* the traces of the files whose record was Processed, with the record read
\* and the key probed without failure
ExaminedProcessed ==
  {tr \in Examined : tr.rec.status = "processed" /\ tr.fails \cap {"get", "head"} = {}}

\* the decision table asks for reprocessing; a remote file listed without a
\* hash counts as differing from every record
MustReprocess(tr) ==
  \/ tr.rec.r2_key = NoKey
  \/ ~tr.seen.present
  \/ HashValue(tr.seen.hash) # HashValue(tr.rec.md5_hash)
  \/ ~Truthy(tr.file.md5Checksum)
  \/ tr.rec.md5_hash # tr.file.md5Checksum

\* C22: for a Processed record the file is reprocessed if the key is absent,
\* the probe finds no blob, the blob's metadata hash differs from the
\* record's hash, or the record's hash differs from the remote hash;
\* otherwise the record's url is returned with no download and no put.
C22_DriftDecisionTable ==
  \A tr \in ExaminedProcessed :
    IF MustReprocess(tr) THEN tr.dlTried
    ELSE /\ ~tr.dlTried /\ tr.put = NoKey
         /\ tr.url = tr.rec.r2_url

\* the traces of the files whose record was Failed and was read
ExaminedFailed ==
  {tr \in Examined : tr.rec.status = "failed" /\ "get" \notin tr.fails}

\* the record has a key and the probe of that key found a blob
ProbeSucceeded(tr) ==
  /\ tr.rec.r2_key # NoKey
  /\ "recHead" \in tr.ran /\ "recHead" \notin tr.fails
  /\ tr.recSeen.present

UnchangedFile(tr) ==
  /\ tr.rec.status = "processed"
  /\ tr.rec.r2_key # NoKey /\ tr.rec.r2_url # NoUrl
  /\ tr.rec.md5_hash = tr.file.md5Checksum
  /\ tr.seen.present
  /\ HashValue(tr.seen.hash) = HashValue(tr.rec.md5_hash)

\* the file was skipped: its url came from the ledger, nothing was downloaded
Skipped(tr) == tr.stage \in {"reuse", "recovered"}

Oversize(tr) == tr.dlOk /\ FileSize(tr.file.id) > DefaultMaxImageSize

\* C28: a file whose raw size exceeds MAX_IMAGE_SIZE is never put, is
\* recorded Failed with a message that states the size, and contributes no
\* reference; the pass goes on with the next file.
C28_OversizeRejected ==
  \A i \in DOMAIN log.per :
    Oversize(log.per[i])
      => /\ log.per[i].put = NoKey
         /\ log.per[i].url = NoUrl
         /\ getImageSyncRecord(ledger, log.per[i].file.id).status = "failed"
         /\ getImageSyncRecord(ledger, log.per[i].file.id).error_message
              = "File size exceeds maximum"
         /\ pass.outcome # "threw"

(* ---------------- the transform step of the optimizing revision -------- *)
\* the transform step of a file ran and failed inside: the temporary put
\* failed, or the resize request erred, timed out or was answered non-OK
TransformFailed(tr) ==
  /\ tr.transformed
  /\ \/ "tempPut" \in tr.fails
     \/ tr.response.kind \in {"notOk", "error", "timeout"}

\* the original bytes and mime type of the file are what is stored
KeepsOriginal(tr) ==
  /\ tr.stored.original
  /\ tr.stored.size = FileSize(tr.file.id)
  /\ tr.stored.mimeType = tr.file.mimeType

\* C29: a failure inside the transform step (temporary put, request error,
\* non-OK response, timeout) makes the pipeline keep the original bytes and
\* mime type; unless the upload or the ledger write fails too, the file is
\* then uploaded under its own name and recorded Processed, never Failed
C29_TransformFailureFallsBack ==
  \A i \in DOMAIN log.per :
    LET tr == log.per[i]
    IN TransformFailed(tr) =>
         /\ KeepsOriginal(tr)
         /\ tr.put = R2KeyOf(pass.tableId, pass.rowId, tr.file.name)
         /\ tr.fails \cap {"put", "write"} = {} =>
              /\ tr.stage = "success"
              /\ tr.putOk
              /\ i = Len(log.per) =>
                   /\ bucket[tr.put].present
                   /\ \E j \in DOMAIN ledger :
                        /\ ledger[j].google_drive_file_id = tr.file.id
                        /\ ledger[j].status = "processed"
                        /\ ledger[j].r2_key = tr.put
                        /\ ledger[j].original_size = FileSize(tr.file.id)
                        /\ ledger[j].optimized_size = FileSize(tr.file.id)

\* a resize request timed out and the file was stored as it was downloaded
C29_Witness ==
  \E i \in DOMAIN log.per :
    /\ log.per[i].response.kind = "timeout"
    /\ log.per[i].stage = "success"
    /\ getImageSyncRecord(ledger, log.per[i].file.id).status = "processed"

\* C30: the transformed output is stored only when it is strictly smaller
\* than 95% of the original; an output that is not keeps the original bytes
\* and mime type; every Processed record has optimized_size <= original_size
C30_ReplacedOnlyWhenSmaller ==
  /\ \A i \in DOMAIN log.per :
       LET tr == log.per[i]
           orig == FileSize(tr.file.id)
       IN tr.transformed =>
            /\ ~tr.stored.original =>
                 /\ tr.response.kind = "ok"
                 /\ tr.stored.size = tr.response.size
                 /\ tr.stored.size * 100 < orig * 95
            /\ (tr.response.kind = "ok" /\ tr.response.size * 100 >= orig * 95)
                 => KeepsOriginal(tr)
  /\ \A j \in DOMAIN ledger :
       ledger[j].status = "processed" =>
         ledger[j].optimized_size <= ledger[j].original_size

\* one output of exactly 95% was dropped for the original, and one below
\* 95% is recorded with its smaller size
C30_Witness ==
  /\ \E i \in DOMAIN log.per :
       /\ log.per[i].response.kind = "ok"
       /\ log.per[i].response.size * 100 = FileSize(log.per[i].file.id) * 95
       /\ log.per[i].stage = "success"
       /\ log.per[i].stored.original
  /\ \E j \in DOMAIN ledger :
       /\ ledger[j].status = "processed"
       /\ ledger[j].optimized_size < ledger[j].original_size

(* ------------------------ the order of the steps of one file ----------- *)
\* the steps of one file ran in the order download, transform, upload,
\* record: each ran only after the one before it had succeeded
InStepOrder(tr) ==
  /\ "tempPut" \in tr.ran => "download" \in tr.ran \ tr.fails
  /\ "put" \in tr.ran => tr.transformed /\ "tempPut" \in tr.ran
  /\ "write" \in tr.ran => "put" \in tr.ran \ tr.fails

\* the record the ledger holds for the file of the iteration just finished,
\* when that iteration wrote it as Processed
WrittenProcessed(tr) ==
  /\ tr.wrote
  /\ getImageSyncRecord(ledger, tr.file.id).status = "processed"

\* C25: the steps of one file occur in the order download, transform,
\* upload, record; a record is written as Processed only after the put of its
\* key succeeded in the same iteration, or after a successful probe of the
\* key of a Failed record
C25_ProcessedOnlyAfterPut ==
  /\ \A i \in DOMAIN log.per : InStepOrder(log.per[i])
  /\ Len(log.per) > 0 =>
       LET tr == log.per[Len(log.per)]
           rec == getImageSyncRecord(ledger, tr.file.id)
       IN WrittenProcessed(tr) =>
            \/ /\ tr.putOk
               /\ tr.put = rec.r2_key
               /\ bucket[rec.r2_key].present
               /\ bucket[rec.r2_key].fileId = tr.file.id
            \/ /\ tr.stage = "recovered"
               /\ tr.recSeen.present
               /\ tr.rec.r2_key = rec.r2_key

\* a file went through download, transform, upload and record, and its
\* optimized output is what the Processed record points at
C25_Witness ==
  /\ Len(log.per) > 0
  /\ WrittenProcessed(log.per[Len(log.per)])
  /\ {"download", "tempPut", "put", "write"} \subseteq log.per[Len(log.per)].ran
  /\ ~log.per[Len(log.per)].stored.original

(* ------------------------ the end of a pass over a listing -------------- *)
\* a pass that listed image files has ended
PassOverFilesEnded == pc = "done" /\ Len(pass.files) > 0

\* the iteration wrote a Failed record for its file
FailedWritten(tr) ==
  tr.wrote /\ tr.stage \in {"get", "head", "download", "put", "write"}

\* C26: a pass over a listing ends with exactly one outcome for every
\* listed image file, a returned reference or a written Failed record; no
\* failure at a step of one file keeps the later files from being processed
C26_EveryFileHasOutcome ==
  PassOverFilesEnded =>
    /\ pass.outcome = "returned"
    /\ Len(log.per) = Len(pass.files)
    /\ \A i \in DOMAIN log.per :
         /\ log.per[i].file = pass.files[i]
         /\ (log.per[i].url # NoUrl) # FailedWritten(log.per[i])

\* the same, for passes in which no write of the catch block failed
C26_EveryFileHasOutcomeUnlessCatchFails ==
  (PassOverFilesEnded /\ \A i \in DOMAIN log.per : "catchWrite" \notin log.per[i].fails)
    => C26_EveryFileHasOutcome

\* the blob of a file was put and the ledger write that records it failed
UploadedUnrecorded(tr) == tr.putOk /\ "write" \in tr.fails

\* C27: when the ledger write that records a file fails after the blob was
\* uploaded, the pass ends by throwing; it does not return normally
C27_RecordFailurePropagates ==
  (PassOverFilesEnded /\ \E i \in DOMAIN log.per : UploadedUnrecorded(log.per[i]))
    => pass.outcome = "threw"

(* ------------------------- metadata of uploaded objects ---------------- *)
\* the iteration just finished put an object that nothing has touched since
JustPut ==
  /\ Len(log.per) > 0
  /\ log.per[Len(log.per)].putOk
  /\ since = NoChange

\* C31: every object a pass puts under an owner's key carries the id of
\* the Drive file and its content hash (x-drive-file-id, x-hash-md5), also
\* for a file that is listed without md5Checksum
C31_ObjectCarriesIdAndHash ==
  JustPut =>
    LET tr == log.per[Len(log.per)]
    IN /\ bucket[tr.put].present
       /\ bucket[tr.put].fileId = tr.file.id
       /\ Truthy(bucket[tr.put].hash)

\* the same, for the files that are listed with md5Checksum
C31_ObjectCarriesIdAndHashWhenListed ==
  (JustPut /\ Truthy(log.per[Len(log.per)].file.md5Checksum)) =>
    C31_ObjectCarriesIdAndHash

(* --------------------------- what a pass leaves alone ------------------ *)
\* a step of a sync pass: neither an eviction nor a move of the environment
SyncStep == pc' # "evicted" /\ envs' = envs

\* the Drive files that have a record in led
RecordedIds(led) == {led[i].google_drive_file_id : i \in DOMAIN led}

\* C32: no step of a sync pass removes a ledger record or a blob under an
\* owner's key, whatever the listing holds; records go only in an eviction
C32_PassDeletesNothing ==
  [][SyncStep =>
       /\ RecordedIds(ledger) \subseteq RecordedIds(ledger')
       /\ Len(ledger') >= Len(ledger)
       /\ \A k \in AllKeys : bucket[k].present => bucket'[k].present]_vars

\* a pass has returned over a listing that lost a synced file, whose record
\* and blob are still there
C32_Witness ==
  /\ SyncReturned
  /\ between.listing
  /\ \E i \in DOMAIN ledger :
       /\ ledger[i].google_drive_file_id \notin remote.present
       /\ ledger[i].status = "processed"
       /\ bucket[ledger[i].r2_key].present

(* ------------------------ failing deletes in an eviction --------------- *)
\* an eviction has run in which deletes of keys failed and no D1 statement
EvictedWithFailedDeletes ==
  /\ pc = "evicted"
  /\ ev.failed # {}
  /\ log.faults = Cardinality(ev.failed)

\* C33: in deleteRowImages a failing delete of a key is not propagated; the
\* delete of every other key of the owner is still attempted and the
\* owner's ledger records are removed
C33_FailedDeleteTolerated ==
  EvictedWithFailedDeletes =>
    /\ ev.outcome = "returned"
    /\ ev.calls = SelectKeys(pre.ledger, ev.tableId, ev.rowId)
    /\ \A i \in (1..Len(ev.calls)) \ ev.failed : ~bucket[ev.calls[i]].present
    /\ \A j \in DOMAIN ledger :
         ~(ledger[j].table_id = ev.tableId /\ ledger[j].row_id = ev.rowId)

\* the delete of the first of two keys failed, the second key was deleted
\* and the eviction returned
C33_Witness ==
  /\ EvictedWithFailedDeletes
  /\ ev.failed = {1} /\ Len(ev.calls) = 2
  /\ ev.calls[1] # ev.calls[2]
  /\ pre.bucket[ev.calls[2]].present
  /\ ~bucket[ev.calls[2]].present
  /\ ev.outcome = "returned"

(* ------------------------------- write-back ---------------------------- *)
\* C34: when a sync started for the folder field of a row has returned at
\* least one reference, the reference column of that row holds exactly the
\* returned list
C34_ReferencesWrittenBack ==
  (pc = "done" /\ pass.outcome = "returned" /\ Len(pass.r2Urls) > 0) =>
    rows[<<pass.tableId, pass.rowId>>] = pass.r2Urls

(* ------------------------------ the returned list ---------------------- *)
\* the file ended the pass Unchanged, recovered or newly Processed
EndedWell(tr) == tr.stage \in {"reuse", "recovered", "success"}

\* C35: the list a pass returns holds exactly one reference for each listed
\* image file that ended Unchanged, recovered or newly Processed and none
\* for a file that failed, in the order of the listing, which is ascending
\* by file name
C35_ReturnedListInListingOrder ==
  (pc = "done" /\ pass.outcome = "returned") =>
    LET good == SelectSeq(log.per, EndedWell)
    IN /\ Len(log.per) = Len(pass.files)
       /\ \A i \in DOMAIN log.per : log.per[i].file = pass.files[i]
       /\ \A i, j \in DOMAIN log.per :
            i < j => NameBefore(log.per[i].file.name, log.per[j].file.name)
       /\ \A i \in DOMAIN good : good[i].url # NoUrl
       /\ pass.r2Urls = [i \in DOMAIN good |-> good[i].url]

\* of two listed images the first failed and the second was processed: the
\* returned list holds the one reference of the second
C35_Witness ==
  /\ pc = "done" /\ pass.outcome = "returned"
  /\ Len(log.per) = 2
  /\ ~EndedWell(log.per[1])
  /\ log.per[2].stage = "success"
  /\ pass.r2Urls = <<log.per[2].url>>

(* ------------------------------ untracked blobs ------------------------ *)
\* the steps of one file that write to the ledger
LedgerWrites == {"recWrite", "write", "catchWrite"}

\* no ledger write has failed so far: the operations before the current
\* one ran without any failure, and in the current one no statement on
\* image_sync_records failed
NoLedgerWriteFailed ==
  /\ faults = log.faults
  /\ \A i \in DOMAIN log.per : log.per[i].fails \cap LedgerWrites = {}
  /\ pc = "evicted" => ev.outcome = "returned"

\* the keys the records of the ledger name
TrackedKeys == {ledger[i].r2_key : i \in DOMAIN ledger} \ {NoKey}

\* C36: after sync and eviction operations in which every ledger write
\* succeeded, every blob under an owner's key is named by the r2_key of a
\* ledger record
C36_NoUntrackedBlob ==
  (AtRest /\ NoLedgerWriteFailed) =>
    \A k \in AllKeys : bucket[k].present => k \in TrackedKeys

\* a previously Processed file failed to download again and its blob is
\* no longer named by any record
C36_UntrackedAfterFailedReprocessing ==
  /\ pc = "done" /\ NoLedgerWriteFailed
  /\ \E i \in DOMAIN log.per :
       /\ log.per[i].rec.status = "processed"
       /\ log.per[i].stage = "download"
       /\ bucket[log.per[i].rec.r2_key].present
       /\ log.per[i].rec.r2_key \notin TrackedKeys

\* a renamed file was processed again with no failure at all and the blob
\* under its old key is no longer named by any record
C36_UntrackedAfterRename ==
  /\ pc = "done" /\ faults = 0
  /\ \E i \in DOMAIN log.per :
       /\ log.per[i].file.id \in between.renamed
       /\ log.per[i].rec.status = "processed"
       /\ log.per[i].stage = "success"
       /\ bucket[log.per[i].rec.r2_key].present
       /\ log.per[i].rec.r2_key \notin TrackedKeys

(* ------------------------- the namespace of a record ------------------- *)
\* the key lies under the prefix tableId/rowId/
InNamespace(key, tableId, rowId) == key[1] = tableId /\ key[2] = rowId

\* C37: the r2_key of every ledger record lies in the namespace of the
\* owner stored in the same record, so that deleteRowImages(tableId, rowId)
\* deletes only keys under tableId/rowId/, also when one Drive file is
\* reached through the folder fields of two rows
C37_KeyInOwnNamespace ==
  \A i \in DOMAIN ledger :
    ledger[i].r2_key # NoKey =>
      InNamespace(ledger[i].r2_key, ledger[i].table_id, ledger[i].row_id)

(* --------------------------- keys within one pass ---------------------- *)
\* C38: within one pass two distinct Drive files of the same row are never
\* put under the same key, so no upload overwrites the blob of another
\* file of the folder
C38_DistinctFilesDistinctKeys ==
  \A i, j \in DOMAIN log.per :
    (/\ i # j
     /\ log.per[i].file.id # log.per[j].file.id
     /\ log.per[i].put # NoKey /\ log.per[j].put # NoKey)
      => log.per[i].put # log.per[j].put

(* ----------------------- files listed without a hash ------------------- *)
\* the pass examined a file that is listed without md5Checksum and has a
\* Processed record
HashlessProcessed(tr) ==
  /\ ~Truthy(tr.file.md5Checksum)
  /\ tr.rec.status = "processed"
  /\ tr.stage \notin {"get", "head"}

\* C40: a file listed without md5Checksum is never classified Unchanged;
\* once it has a Processed record every later pass downloads it and, when
\* nothing fails, uploads it again
C40_HashlessAlwaysReprocessed ==
  \A i \in DOMAIN log.per :
    LET tr == log.per[i]
    IN HashlessProcessed(tr) =>
         /\ tr.stage # "reuse"
         /\ tr.dlTried
         /\ tr.fails = {} => tr.putOk /\ tr.stage = "success"

\* a file without md5Checksum whose record was Processed and whose blob was
\* in place has been uploaded again
C40_Witness ==
  \E i \in DOMAIN log.per :
    /\ HashlessProcessed(log.per[i])
    /\ log.per[i].seen.present
    /\ log.per[i].stage = "success"

(* -------------------- eviction during a pass in flight ----------------- *)
\* the row was deleted while a pass for it was running, and both
\* deleteRowImages and the pass have finished
RaceFinished == pc = "done" /\ ev.outcome = "returned"

\* C39: when deleteRowImages runs for a row while a sync pass for the same
\* row is in flight, then once both have finished the ledger holds no
\* record of the row and the bucket no blob under its prefix
C39_EvictionDuringSyncLeavesNothing ==
  RaceFinished =>
    /\ \A i \in DOMAIN ledger :
         ~(ledger[i].table_id = ev.tableId /\ ledger[i].row_id = ev.rowId)
    /\ \A k \in AllKeys :
         InNamespace(k, ev.tableId, ev.rowId) => ~bucket[k].present

====
